---------------------------- MODULE Spec2Model ----------------------------
(***************************************************************************)
(* Model of the form-scanner pipeline of src/services/gemini.service.js,   *)
(* of its routes, src/unnamed/part_000, and of src/scripts/benchmark.js:   *)
(*   - HtmlFetcherService: fetchUrl, extractIframeSrcs, fetchWithIframes,  *)
(*     combineHtml                                 (specification Spec)    *)
(*   - GeminiService: callGeminiAPI, extractForms, generateFieldValues,    *)
(*     analyzeFormsComplete                        (SpecAnalyze)           *)
(*   - one run of either operation                 (SpecEither)            *)
(*   - the tolerant JSON extraction shared by extractForms and             *)
(*     generateFieldValues, as a pure function     (SpecJson)              *)
(*   - extractIframeSrcs as a pure function        (SpecDiscover)          *)
(*   - callGeminiAPI as a pure function            (SpecCall)              *)
(*   - the five POST handlers of the router        (SpecRoutes)            *)
(*   - one run of either operation under the scheduling of the event      *)
(*     loop                                        (SpecScheduled)         *)
(*   - extraction applied to a serialized result   (SpecRoundTrip)         *)
(*   - several requests in flight on the shared service instances          *)
(*                                                 (SpecConcurrent)        *)
(*   - runBenchmark of the benchmark script        (SpecBenchmark)         *)
(*                                                                         *)
(* Text (HTML, model replies) is a sequence of tokens.  Promises are       *)
(* modelled by one action per settlement, so that every completion order   *)
(* of the concurrent calls is a behaviour.                                 *)
(***************************************************************************)
EXTENDS Integers, Sequences, FiniteSets, TLC

VARIABLES
    \* ---- HtmlFetcherService.fetchWithIframes (one call) ----
    fpc,              \* "idle" | "main" | "iframes" | "done" | "failed"
                      \* ("unused": the operation is not the one called)
    mainHtml,         \* const mainHtml
    iframeSrcs,       \* const iframeSrcs
    iframeContents,   \* the array Promise.all is filling
    iframePending,    \* indices of the iframe fetches not yet settled
    fetchResult,      \* the object fetchWithIframes returns
    fetchError,       \* the message of the error fetchWithIframes throws
    fetchCalls,       \* number of fetchUrl calls issued
    discoveryRuns,    \* number of extractIframeSrcs calls
    mainServed,       \* history: what the remote answered for the main url
    iframeServed,     \* history: index -> what the remote answered
    iframeOvertook,   \* history: a fetch settled before one of a lower index
    \* ---- GeminiService.analyzeFormsComplete (one call) ----
    apc,              \* "idle" | "extracting" | "generating" | "done" | "failed"
                      \* ("unused": the operation is not the one called)
    formsData,        \* const formsData
    formsWithValues,  \* the array Promise.all is filling
    genPending,       \* indices of the value-generation calls not yet settled
    analysis,         \* the object analyzeFormsComplete returns
    analysisError,    \* the error analyzeFormsComplete throws
    modelCalls,       \* the model invocations issued, in order
    extractServed,    \* history: the remote reply to the extraction call
    genServed,        \* history: index -> the remote reply to that form's call
    genOvertook,      \* history: a call settled before one of a lower index
    \* ---- tolerant JSON extraction on one reply text ----
    jpc,              \* "input" | "extractForms" | "generateFieldValues"
    replyText,        \* result.text
    extracted,        \* what the function returned or threw
    reextracted,      \* what it returned or threw on the object written back
    \* ---- HtmlFetcherService.extractIframeSrcs on one document ----
    dpc,              \* "input" | "done"
    docHtml,          \* html
    docBase,          \* baseUrl
    discovered,       \* the array extractIframeSrcs returned
    \* ---- GeminiService.callGeminiAPI on one answer of the remote ----
    cpc,              \* "input" | "done"
    apiResponse,      \* what the remote answered
    modelReply,       \* what callGeminiAPI returned or threw
    \* ---- the scanner routes (one request) ----
    rpc,              \* "idle" | "fetched" | "responded"
    request,          \* the endpoint and req.body
    response,         \* res.status(...).json(...)
    routeFetchResult, \* const fetchResult of POST /analyze-url
    routeFetches,     \* page fetches issued while serving the request
    routeModelCalls,  \* model invocations issued while serving the request
    routeServed,      \* history: what the remote web and model answered
    \* ---- concurrent calls on the two service instances ----
    operation,        \* request -> the operation it calls
    frames,           \* activation -> the local variables of that call
    servedTo,         \* history: request -> what the remote answered it
    \* ---- runBenchmark of the benchmark script ----
    bpc,              \* "fetch" | "analyze" | "report" | "complete" | "exit 1"
    benchRun,         \* let run
    benchSite,        \* let i, counted from 1
    benchFetched,     \* const fetchResult of the test under way
    allResults,       \* const allResults
    statistics,       \* const statistics
    filesWritten,     \* the files written to the results directory
    benchRequests     \* history: the requests sent to the server

fetchVars == <<fpc, mainHtml, iframeSrcs, iframeContents, iframePending,
               fetchResult, fetchError, fetchCalls, discoveryRuns,
               mainServed, iframeServed, iframeOvertook>>
analyzeVars == <<apc, formsData, formsWithValues, genPending, analysis,
                 analysisError, modelCalls, extractServed, genServed,
                 genOvertook>>
jsonVars == <<jpc, replyText, extracted, reextracted>>
discoverVars == <<dpc, docHtml, docBase, discovered>>
callVars == <<cpc, apiResponse, modelReply>>
routeVars == <<rpc, request, response, routeFetchResult, routeFetches,
               routeModelCalls, routeServed>>
concurrentVars == <<operation, frames, servedTo>>
benchmarkVars == <<bpc, benchRun, benchSite, benchFetched, allResults,
                   statistics, filesWritten, benchRequests>>
vars == <<fetchVars, analyzeVars, jsonVars, discoverVars, callVars, routeVars,
          concurrentVars, benchmarkVars>>

\* what an action of one component leaves alone
exceptFetch ==
    <<analyzeVars, jsonVars, discoverVars, callVars, routeVars,
      concurrentVars, benchmarkVars>>
exceptAnalyze ==
    <<fetchVars, jsonVars, discoverVars, callVars, routeVars,
      concurrentVars, benchmarkVars>>
exceptJson ==
    <<fetchVars, analyzeVars, discoverVars, callVars, routeVars,
      concurrentVars, benchmarkVars>>
exceptDiscover ==
    <<fetchVars, analyzeVars, jsonVars, callVars, routeVars,
      concurrentVars, benchmarkVars>>
exceptCall ==
    <<fetchVars, analyzeVars, jsonVars, discoverVars, routeVars,
      concurrentVars, benchmarkVars>>
exceptRoute ==
    <<fetchVars, analyzeVars, jsonVars, discoverVars, callVars,
      concurrentVars, benchmarkVars>>
exceptConcurrent ==
    <<fetchVars, analyzeVars, jsonVars, discoverVars, callVars, routeVars,
      benchmarkVars>>
exceptBenchmark ==
    <<fetchVars, analyzeVars, jsonVars, discoverVars, callVars, routeVars,
      concurrentVars>>

-----------------------------------------------------------------------------
(* Bounds of the model.                                                    *)

\* longest main page, in elements (text chunks and iframe tags)
MaxElems == 3
\* most form descriptors an extraction reply carries
MaxForms == 3
\* most fragments a reply text of SpecJson is assembled from
MaxChunks == 4
\* largest small token count a reply of SpecCall reports
MaxTokens == 10
\* longest string of a written-out reply object, in characters
MaxChars == 2
\* requests served at the same time
MaxRequests == 2
\* websites the benchmark tests, and times it tests each
MaxWebsites == 2
MaxRuns == 2

-----------------------------------------------------------------------------
(* Values shared by the components.                                        *)

\* JavaScript null, undefined, and "nothing yet"
Null == [null |-> TRUE]
Undefined == [undefined |-> TRUE]
NoResult == [none |-> TRUE]
Pending == [pending |-> TRUE]
NoError == [wrap |-> "", cause |-> ""]

\* a call that returned, a call that threw
Return(v) == [ok |-> TRUE, value |-> v, error |-> NoError]
Throw(e) == [ok |-> FALSE, value |-> NoResult, error |-> e]

\* { ...a, ...b }
Merge(a, b) ==
    [k \in (DOMAIN a) \cup (DOMAIN b) |-> IF k \in DOMAIN b THEN b[k] ELSE a[k]]

\* obj.k, undefined when absent
Field(obj, k) == IF k \in DOMAIN obj THEN obj[k] ELSE Undefined

Min(S) == CHOOSE x \in S : \A y \in S : x <= y

-----------------------------------------------------------------------------
(* HTML text: a sequence of elements.  The src attribute of an iframe tag  *)
(* is kept by what its text is: kind says how it starts, path is the list  *)
(* of its path segments.                                                   *)
(*   "abs"        http:// or https://, a valid location                    *)
(*   "absbad"     http:// followed by what is no location, as in http://[  *)
(*   "rooted"     a path from the root, as in /x                           *)
(*   "rel"        a path-less relative reference, as in x                  *)
(*   "data", "javascript", "blank"   data:..., javascript:..., about:blank *)
(*   "DATA"       a data payload whose scheme is written in capitals       *)
(*   "bad"        what the URL constructor rejects with any base, as //[   *)
(*   "none"       no quoted src attribute: the pattern does not match      *)

NoSrc == [kind |-> "none", origin |-> "", path |-> <<>>]
AbsSrc(origin, path) == [kind |-> "abs", origin |-> origin, path |-> path]
RootedSrc(path) == [kind |-> "rooted", origin |-> "", path |-> path]
RelSrc(path) == [kind |-> "rel", origin |-> "", path |-> path]
OtherSrc(kind) == [kind |-> kind, origin |-> "", path |-> <<>>]

Text(v) == [t |-> "text", v |-> v, index |-> 0, src |-> NoSrc]
IframeTag(src) == [t |-> "iframe", v |-> "", index |-> 0, src |-> src]

\* https://example.com/a/b
BaseUrl == AbsSrc("https://example.com", <<"a", "b">>)

PageElements ==
    { Text("a"),
      IframeTag(AbsSrc("https://other.example", <<"w">>)),
      IframeTag(RootedSrc(<<"x">>)),
      IframeTag(OtherSrc("data")),
      IframeTag(OtherSrc("bad")) }

MainPages == UNION { [1..n -> PageElements] : n \in 0..MaxElems }

IframeBodies == { <<>>, <<Text("b")>> }

-----------------------------------------------------------------------------
(* The remote web: what a page fetch can be answered with.                 *)

OkResponse(body) ==
    [kind |-> "response", ok |-> TRUE, status |-> 200, body |-> body]
ErrResponse(status) ==
    [kind |-> "response", ok |-> FALSE, status |-> status,
     body |-> <<Text("error page")>>]
TimedOut == [kind |-> "timeout", ok |-> FALSE, status |-> 0, body |-> <<>>]

MainResponses ==
    { OkResponse(p) : p \in MainPages } \cup { ErrResponse(404), TimedOut }
IframeResponses ==
    { OkResponse(b) : b \in IframeBodies } \cup { ErrResponse(404), TimedOut }

HttpError(status) == [wrap |-> "", cause |-> "HTTP " \o ToString(status)]
TimeoutError == [wrap |-> "", cause |-> "network timeout"]

\* a plausible bug: the status is not looked at
FetchUrlIgnoringStatus(resp) ==
    IF resp.kind = "timeout" THEN Throw(TimeoutError) ELSE Return(resp.body)

\* fetchUrl: the body of a success response, an error otherwise
FetchUrl(resp) ==
    IF resp.kind = "timeout" THEN Throw(TimeoutError)
    ELSE IF ~resp.ok THEN Throw(HttpError(resp.status))
    ELSE Return(resp.body)

-----------------------------------------------------------------------------
(* extractIframeSrcs                                                       *)

InvalidUrl == [wrap |-> "", cause |-> "Invalid URL"]

\* a path without its last segment
Directory(path) ==
    IF path = <<>> THEN <<>> ELSE SubSeq(path, 1, Len(path) - 1)

\* new URL(baseUrl).origin, used as a base: scheme, host and port, path /
Origin(baseUrl) == AbsSrc(baseUrl.origin, <<>>)

\* new URL(src, base).href: a reference that carries a scheme stands for
\* itself, its scheme in lower case; a rooted path replaces the path of the
\* base; a relative path is merged with the directory of the base
NewURL(src, base) ==
    CASE src.kind \in {"bad", "absbad", "none"} -> Throw(InvalidUrl)
      [] src.kind = "abs" -> Return(src)
      [] src.kind \in {"data", "DATA"} -> Return(OtherSrc("data"))
      [] src.kind \in {"javascript", "blank"} -> Return(src)
      [] src.kind = "rooted" -> Return(AbsSrc(base.origin, src.path))
      [] src.kind = "rel" ->
           Return(AbsSrc(base.origin, Directory(base.path) \o src.path))

\* a plausible bug: the reference is joined with the whole base location
ResolveSrcAgainstBase(src, baseUrl) == NewURL(src, baseUrl)

\* new URL(src, base.origin) for a src without http(s) scheme
ResolveSrc(src, baseUrl) == NewURL(src, Origin(baseUrl))

\* src.startsWith('data:') || src.startsWith('javascript:')
\*     || src === 'about:blank'
Skipped(src) == src.kind \in {"data", "javascript", "blank"}

\* src.startsWith('http://') || src.startsWith('https://')
HasHttpScheme(src) == src.kind \in {"abs", "absbad"}

\* a plausible bug: a source already collected is not collected again
RECURSIVE ExtractIframeSrcsOnce(_, _, _)
ExtractIframeSrcsOnce(html, baseUrl, seen) ==
    IF html = <<>> THEN <<>>
    ELSE LET e == Head(html)
             found == IF e.t # "iframe" \/ e.src.kind = "none" THEN <<>>
                      ELSE IF Skipped(e.src) THEN <<>>
                      ELSE IF HasHttpScheme(e.src) THEN <<e.src>>
                      ELSE IF ~ResolveSrc(e.src, baseUrl).ok THEN <<>>
                      ELSE <<ResolveSrc(e.src, baseUrl).value>>
             new == SelectSeq(found, LAMBDA src : src \notin seen)
         IN  new \o ExtractIframeSrcsOnce(Tail(html), baseUrl,
                                          seen \cup {new[i] : i \in DOMAIN new})
ExtractIframeSrcsDeduplicating(html, baseUrl) ==
    ExtractIframeSrcsOnce(html, baseUrl, {})

\* a plausible bug: a source that does not resolve ends the loop (break)
RECURSIVE ExtractIframeSrcsStoppingAtInvalid(_, _)
ExtractIframeSrcsStoppingAtInvalid(html, baseUrl) ==
    IF html = <<>> THEN <<>>
    ELSE LET e == Head(html)
             rest == ExtractIframeSrcsStoppingAtInvalid(Tail(html), baseUrl)
         IN  IF e.t # "iframe" \/ e.src.kind = "none" THEN rest
             ELSE IF Skipped(e.src) THEN rest
             ELSE IF HasHttpScheme(e.src) THEN <<e.src>> \o rest
             ELSE IF ~ResolveSrc(e.src, baseUrl).ok THEN <<>>
             ELSE <<ResolveSrc(e.src, baseUrl).value>> \o rest

\* the loop over the matches of the iframe pattern, from the first on
RECURSIVE ExtractIframeSrcs(_, _)
ExtractIframeSrcs(html, baseUrl) ==
    IF html = <<>> THEN <<>>
    ELSE LET e == Head(html)
             rest == ExtractIframeSrcs(Tail(html), baseUrl)
         IN  IF e.t # "iframe" \/ e.src.kind = "none" THEN rest
             ELSE IF Skipped(e.src) THEN rest
             ELSE IF HasHttpScheme(e.src) THEN <<e.src>> \o rest
             ELSE IF ~ResolveSrc(e.src, baseUrl).ok THEN rest
             ELSE <<ResolveSrc(e.src, baseUrl).value>> \o rest

-----------------------------------------------------------------------------
(* combineHtml                                                             *)

\* <!-- ========== IFRAME ${index} CONTENT: ${src} ========== -->
Marker(index, src) == [t |-> "marker", v |-> "", index |-> index, src |-> src]

RECURSIVE CombineFrom(_, _, _)
CombineFrom(combined, contents, index) ==
    IF index > Len(contents) THEN combined
    ELSE LET iframe == contents[index]
         IN  IF iframe.success /\ iframe.content # <<>>
             THEN CombineFrom(combined \o <<Marker(index, iframe.src)>>
                                       \o iframe.content,
                              contents, index + 1)
             ELSE CombineFrom(combined, contents, index + 1)

CombineHtml(main, contents) == CombineFrom(main, contents, 1)

-----------------------------------------------------------------------------
(* fetchWithIframes                                                        *)

\* a plausible bug: the failure is recorded without what went wrong
IframeEntryWithoutError(src, outcome) ==
    [src |-> src, content |-> outcome.value, success |-> outcome.ok]

\* the try/catch around each iframe fetch
IframeEntry(src, outcome) ==
    IF outcome.ok
    THEN [src |-> src, content |-> outcome.value, success |-> TRUE]
    ELSE [src |-> src, content |-> <<>>, success |-> FALSE,
          error |-> outcome.error.cause]

\* a plausible bug: results collected as they arrive (push in each callback)
StoreIframeResultOnArrival(results, index, entry) ==
    LET k == Min({ j \in DOMAIN results : results[j] = Pending })
    IN  [results EXCEPT ![k] = entry]

\* Promise.all over iframeSrcs.map: a result lands at its source's index
StoreIframeResult(results, index, entry) == [results EXCEPT ![index] = entry]

Successful(contents) == { i \in DOMAIN contents : contents[i].success }

\* the object returned when iframes were found
AggregatedDocument(main, srcs, contents) ==
    LET successfulIframes == Cardinality(Successful(contents))
    IN  [mainHtml |-> main,
         iframes |-> contents,
         combinedHtml |-> CombineHtml(main, contents),
         stats |-> [totalIframes |-> Len(srcs),
                    successfulIframes |-> successfulIframes,
                    failedIframes |-> Len(srcs) - successfulIframes]]

\* the object returned when no iframe was found
PlainDocument(main) ==
    [mainHtml |-> main, iframes |-> <<>>, combinedHtml |-> main]

FetchInit ==
    /\ fpc = "idle"
    /\ mainHtml = <<>>
    /\ iframeSrcs = <<>>
    /\ iframeContents = <<>>
    /\ iframePending = {}
    /\ fetchResult = NoResult
    /\ fetchError = NoError
    /\ fetchCalls = 0
    /\ discoveryRuns = 0
    /\ mainServed = NoResult
    /\ iframeServed = <<>>
    /\ iframeOvertook = FALSE

\* fetchWithIframes(url) up to its first await: the main fetch is issued
FetchWithIframes ==
    /\ fpc = "idle"
    /\ fpc' = "main"
    /\ fetchCalls' = fetchCalls + 1
    /\ UNCHANGED <<mainHtml, iframeSrcs, iframeContents, iframePending,
                   fetchResult, fetchError, discoveryRuns, mainServed,
                   iframeServed, iframeOvertook>>
    /\ UNCHANGED exceptFetch

\* the main fetch settles: throw, or discover the iframes and fetch them all
MainFetchSettle ==
    /\ fpc = "main"
    /\ \E resp \in MainResponses :
         LET out == FetchUrl(resp)
             srcs == ExtractIframeSrcs(out.value, BaseUrl)
         IN  /\ mainServed' = resp
             /\ IF ~out.ok
                THEN /\ fpc' = "failed"
                     /\ fetchError' = out.error
                     /\ UNCHANGED <<mainHtml, iframeSrcs, iframeContents,
                                    iframePending, fetchResult, fetchCalls,
                                    discoveryRuns>>
                ELSE /\ mainHtml' = out.value
                     /\ iframeSrcs' = srcs
                     /\ discoveryRuns' = discoveryRuns + 1
                     /\ fetchError' = fetchError
                     /\ IF Len(srcs) = 0
                        THEN /\ fpc' = "done"
                             /\ fetchResult' = PlainDocument(out.value)
                             /\ UNCHANGED <<iframeContents, iframePending,
                                            fetchCalls>>
                        ELSE /\ fpc' = "iframes"
                             /\ iframeContents' = [i \in 1..Len(srcs) |-> Pending]
                             /\ iframePending' = 1..Len(srcs)
                             /\ fetchCalls' = fetchCalls + Len(srcs)
                             /\ fetchResult' = fetchResult
    /\ UNCHANGED <<iframeServed, iframeOvertook>>
    /\ UNCHANGED exceptFetch

\* one iframe fetch settles, in any order
IframeFetchSettle ==
    /\ fpc = "iframes"
    /\ \E index \in iframePending, resp \in IframeResponses :
         /\ iframeContents' =
                StoreIframeResult(iframeContents, index,
                                  IframeEntry(iframeSrcs[index], FetchUrl(resp)))
         /\ iframePending' = iframePending \ {index}
         /\ iframeServed' = (index :> resp) @@ iframeServed
         /\ iframeOvertook' =
                (iframeOvertook \/ \E j \in iframePending : j < index)
    /\ UNCHANGED <<fpc, mainHtml, iframeSrcs, fetchResult, fetchError,
                   fetchCalls, discoveryRuns, mainServed>>
    /\ UNCHANGED exceptFetch

\* Promise.all resolved: combine, count, return
FetchAssemble ==
    /\ fpc = "iframes"
    /\ iframePending = {}
    /\ fpc' = "done"
    /\ fetchResult' = AggregatedDocument(mainHtml, iframeSrcs, iframeContents)
    /\ UNCHANGED <<mainHtml, iframeSrcs, iframeContents, iframePending,
                   fetchError, fetchCalls, discoveryRuns, mainServed,
                   iframeServed, iframeOvertook>>
    /\ UNCHANGED exceptFetch

-----------------------------------------------------------------------------
(* Reply text of the model: a sequence of tokens.  A token is three        *)
(* backticks, the fence label json, a line break, a run of prose (no       *)
(* backtick, no line break, not JSON), or the JSON text of one object.     *)
(* The text of an object with a number and a string is written out: its    *)
(* start up to the opening quote of the string (the number literal is part *)
(* of it), the characters of the string, the closing quote, the brace.     *)

Tok(c) == [c |-> c, id |-> 0]
Fence == Tok("fence")
JsonLabel == Tok("json")
NL == Tok("newline")
Prose == Tok("prose")
\* the JSON text of an extraction reply with id forms, of one without a forms
\* field, and of a value-generation reply
FormsJson(id) == [c |-> "forms", id |-> id]
NoFormsJson == [c |-> "noforms", id |-> 0]
ValuesJson(id) == [c |-> "values", id |-> id]

\* a reply whose parts[0] has no text: result.text is undefined
UndefinedText == <<[c |-> "undefined", id |-> 0]>>

IsJsonText(tok) == tok.c \in {"forms", "noforms", "values"}

FormDescriptor(i) ==
    [formId |-> i, formType |-> "traditional", fields |-> <<[fieldName |-> i]>>]

\* JSON.parse of the text of one object
JsonValue(tok) ==
    CASE tok.c = "forms" ->
           [summary |-> [totalFunctionalForms |-> tok.id],
            forms |-> [i \in 1..tok.id |-> FormDescriptor(i)]]
      [] tok.c = "noforms" ->
           [summary |-> [totalFunctionalForms |-> 0]]
      [] tok.c = "values" ->
           [formId |-> tok.id,
            values |-> [fieldName |-> tok.id],
            metadata |-> [allValidationsSatisfied |-> TRUE, notes |-> tok.id]]

SyntaxError == [wrap |-> "", cause |-> "SyntaxError"]
TypeError == [wrap |-> "", cause |-> "TypeError"]

\* JavaScript numbers that are not finite
NaN == [num |-> "NaN", v |-> 0]
Infinity == [num |-> "Infinity", v |-> 0]
Num(v) == [num |-> "finite", v |-> v]

\* the ways a number member is written; null stands where no number is
NumberLiterals == <<"1", "1.0", "1e400", "null">>

\* the value JSON.parse reads from a literal: one beyond the range of a
\* double is Infinity
NumberValue(literal) ==
    CASE literal = "1" -> Num(1)
      [] literal = "1.0" -> Num(1)
      [] literal = "1e400" -> Infinity
      [] literal = "null" -> Null

\* how JSON.stringify writes a value: what is not finite is written null
NumberText(value) ==
    IF value = Num(1) THEN "1" ELSE "null"

\* { "count": literal, "notes": "     (up to the opening quote)
ObjectStart(literal) ==
    [c |-> "object",
     id |-> CHOOSE k \in DOMAIN NumberLiterals : NumberLiterals[k] = literal]
IsObjectStart(tok) == tok.c = "object"
\* the closing quote of the string, the closing brace
StringEnd == Tok("quote")
ObjectEnd == Tok("brace")

\* a line break written in a string with depth backslashes before the n that
\* stands for it: the break itself (0), its escape sequence (1), the escape
\* sequence of the backslash followed by n (2), ...
LineBreak(depth) == IF depth = 0 THEN NL ELSE [c |-> "escaped", id |-> depth]
IsLineBreak(tok) == tok = NL \/ tok.c = "escaped"
Depth(tok) == IF tok = NL THEN 0 ELSE tok.id

\* what may stand between the quotes of a string: no bare line break
IsStringText(tok) == tok \in {Prose, Fence, JsonLabel} \/ tok.c = "escaped"

\* a plausible bug: escape sequences taken as they are written
KeepEscapes(chars) == chars

\* the characters a string literal stands for
Unescape(chars) ==
    [i \in DOMAIN chars |->
        IF IsLineBreak(chars[i]) THEN LineBreak(Depth(chars[i]) - 1)
        ELSE chars[i]]

\* the string literal JSON.stringify writes for characters
Escape(chars) ==
    [i \in DOMAIN chars |->
        IF IsLineBreak(chars[i]) THEN LineBreak(Depth(chars[i]) + 1)
        ELSE chars[i]]

\* positions of the closing quote of a written-out object in text: the
\* object starts at the first token that is no line break, the string runs
\* to the quote, the brace is the last token that is no line break
StringEnds(text) ==
    LET solid == { i \in DOMAIN text : text[i] # NL }
    IN  IF solid = {} THEN {}
        ELSE LET a == Min(solid)
                 b == CHOOSE i \in solid : \A j \in solid : j <= i
             IN  { q \in (a + 1)..(b - 1) :
                     /\ IsObjectStart(text[a])
                     /\ text[b] = ObjectEnd
                     /\ text[q] = StringEnd
                     /\ \A i \in (a + 1)..(q - 1) : IsStringText(text[i])
                     /\ \A i \in (q + 1)..(b - 1) : text[i] = NL }

ObjectValue(text) ==
    LET a == Min({ i \in DOMAIN text : text[i] # NL })
        q == Min(StringEnds(text))
    IN  [count |-> NumberValue(NumberLiterals[text[a].id]),
         notes |-> Unescape(SubSeq(text, a + 1, q - 1))]

\* JSON.parse: white space around one value
JSONParse(text) ==
    LET core == SelectSeq(text, LAMBDA tok : tok # NL)
    IN  IF Len(core) = 1 /\ IsJsonText(core[1])
        THEN Return(JsonValue(core[1]))
        ELSE IF StringEnds(text) # {}
        THEN Return(ObjectValue(text))
        ELSE Throw(SyntaxError)

\* the reply objects of the model that are one token of text
JsonTexts ==
    { FormsJson(n) : n \in 0..MaxForms } \cup {NoFormsJson}
        \cup { ValuesJson(n) : n \in 0..MaxForms }

\* JSON.stringify(value, null, 2): members on lines of their own
JSONStringify(value) ==
    IF DOMAIN value = {"count", "notes"}
    THEN <<ObjectStart(NumberText(value.count))>> \o Escape(value.notes)
             \o <<StringEnd, NL, ObjectEnd>>
    ELSE <<CHOOSE tok \in JsonTexts : JsonValue(tok) = value>>

JsonFenceOpen == <<Fence, JsonLabel, NL>>
PlainFenceOpen == <<Fence, NL>>

\* positions of a closing line break + fence at or after from
Closers(text, from) ==
    { k \in from..(Len(text) - 1) : text[k] = NL /\ text[k + 1] = Fence }

\* positions where opener starts and a closer follows
FenceStarts(text, opener) ==
    { i \in 1..Len(text) :
        /\ i + Len(opener) - 1 <= Len(text)
        /\ SubSeq(text, i, i + Len(opener) - 1) = opener
        /\ Closers(text, i + Len(opener)) # {} }

NoMatch == [matched |-> FALSE, group |-> <<>>]

\* a plausible bug: a greedy group, which runs to the last closer
FenceMatchGreedy(text, opener) ==
    IF FenceStarts(text, opener) = {} THEN NoMatch
    ELSE LET i == Min(FenceStarts(text, opener))
             from == i + Len(opener)
             k == CHOOSE c \in Closers(text, from) :
                      \A d \in Closers(text, from) : d <= c
         IN  [matched |-> TRUE, group |-> SubSeq(text, from, k - 1)]

\* text.match of opener, lazy group, line break, fence: leftmost start,
\* shortest group
FenceMatch(text, opener) ==
    IF FenceStarts(text, opener) = {} THEN NoMatch
    ELSE LET i == Min(FenceStarts(text, opener))
             from == i + Len(opener)
             k == Min(Closers(text, from))
         IN  [matched |-> TRUE, group |-> SubSeq(text, from, k - 1)]

\* the other reading: a candidate that is not valid JSON falls through
ParseReplyFallingThrough(text) ==
    LET a == FenceMatch(text, JsonFenceOpen)
        b == FenceMatch(text, PlainFenceOpen)
    IN  IF a.matched /\ JSONParse(a.group).ok THEN JSONParse(a.group)
        ELSE IF b.matched /\ JSONParse(b.group).ok THEN JSONParse(b.group)
        ELSE JSONParse(text)

\* the parsing block of extractForms and of generateFieldValues
ParseReply(text) ==
    LET jsonMatch == IF FenceMatch(text, JsonFenceOpen).matched
                     THEN FenceMatch(text, JsonFenceOpen)
                     ELSE FenceMatch(text, PlainFenceOpen)
    IN  IF text = UndefinedText
        THEN Throw(TypeError)   \* text.match on undefined
        ELSE IF jsonMatch.matched
        THEN JSONParse(jsonMatch.group)
        ELSE JSONParse(text)

-----------------------------------------------------------------------------
(* The remote model: what a generateContent request can be answered with.  *)
(* json says whether the body is JSON at all; shape says how much of       *)
(* candidates[0].content.parts[0].text a JSON body of a success holds:     *)
(*   "full"           all of it                                            *)
(*   "no_candidates"  candidates missing or empty                          *)
(*   "no_content"     candidates[0] without content                        *)
(*   "no_parts"       content without parts, or with parts empty           *)
(*   "no_text"        parts[0] without text                                *)
(* usageMetadata may lack any of its counts.                               *)

UsageMetadata(prompt, candidates, total) ==
    [promptTokenCount |-> prompt, candidatesTokenCount |-> candidates,
     totalTokenCount |-> total]
NoUsageMetadata == UsageMetadata(0, 0, 0)

ApiFailure(status) ==
    [ok |-> FALSE, status |-> status, json |-> TRUE, shape |-> "none",
     text |-> <<>>, usageMetadata |-> NoUsageMetadata]
\* an answer whose body is not JSON, such as the error page of a gateway
NotJson(status) ==
    [ok |-> status = 200, status |-> status, json |-> FALSE, shape |-> "none",
     text |-> <<>>, usageMetadata |-> NoUsageMetadata]
ApiReply(shape, text, um) ==
    [ok |-> TRUE, status |-> 200, json |-> TRUE, shape |-> shape,
     text |-> text, usageMetadata |-> um]

Fenced(tok) == JsonFenceOpen \o <<tok, NL, Fence>>

ExtractResponses ==
    { ApiFailure(500),
      ApiReply("no_candidates", <<>>, NoUsageMetadata),
      ApiReply("no_parts", <<>>, UsageMetadata(8, 4, 12)),
      ApiReply("no_text", <<>>, UsageMetadata(8, 4, 12)),
      ApiReply("full", <<Prose>>, UsageMetadata(8, 4, 12)),
      ApiReply("full", <<NoFormsJson>>, NoUsageMetadata) }
    \cup { ApiReply("full", <<Prose, NL>> \o Fenced(FormsJson(n)),
                    UsageMetadata(8, 4, 12)) : n \in 0..MaxForms }

GenResponses ==
    { ApiFailure(500),
      ApiReply("no_candidates", <<>>, NoUsageMetadata),
      ApiReply("full", Fenced(ValuesJson(1)), UsageMetadata(4, 8, 12)),
      ApiReply("full", <<ValuesJson(2)>>, UsageMetadata(8, 4, 0)),
      ApiReply("full", <<Prose>>, UsageMetadata(4, 4, 8)),
      ApiReply("full", <<FormsJson(0)>>, NoUsageMetadata) }

-----------------------------------------------------------------------------
(* callGeminiAPI.  Costs are in millionths of a dollar, the resolution of  *)
(* toFixed(6): an input token costs 1.25 of them, an output token 5.  The  *)
(* products are IEEE doubles: where the exact cost ends in half a          *)
(* millionth the double lies just above or just below the half and         *)
(* toFixed(6) follows the double.  BelowHalf lists, for the token counts   *)
(* up to 13 and the pairs with 1000 or 2000 tokens, where it lies below.   *)

\* usageMetadata.k || 0
Count(um, k) == IF k \in DOMAIN um THEN um[k] ELSE 0

\* <<inputTokens, outputTokens>> whose cost in doubles, (inputTokens / 1000)
\* * 0.00125 + (outputTokens / 1000) * 0.005, lies below the half it ends in
BelowHalf ==
    { <<2, 9>>, <<2, 11>>, <<6, 9>>, <<6, 1000>>, <<10, 9>>, <<10, 13>> }

\* parseFloat(x.toFixed(6)) of a cost of hundredths hundredths of a millionth
ToFixed6(hundredths, below) ==
    IF hundredths % 100 = 50 /\ below
    THEN hundredths \div 100
    ELSE (hundredths + 50) \div 100

InputCost(inputTokens) ==
    ToFixed6(inputTokens * 125, <<inputTokens, 0>> \in BelowHalf)

\* a plausible bug: the output priced at the input rate
OutputCostAtInputRate(outputTokens) == InputCost(outputTokens)

OutputCost(outputTokens) == ToFixed6(outputTokens * 500, FALSE)

TotalCost(inputTokens, outputTokens) ==
    ToFixed6(inputTokens * 125 + outputTokens * 500,
             <<inputTokens, outputTokens>> \in BelowHalf)

UsageOf(um) ==
    LET inputTokens == Count(um, "promptTokenCount")
        outputTokens == Count(um, "candidatesTokenCount")
    IN  [inputTokens |-> inputTokens,
         outputTokens |-> outputTokens,
         totalTokens |-> IF Count(um, "totalTokenCount") # 0
                         THEN um.totalTokenCount
                         ELSE inputTokens + outputTokens,
         inputCost |-> InputCost(inputTokens),
         outputCost |-> OutputCost(outputTokens),
         totalCost |-> TotalCost(inputTokens, outputTokens)]

ApiError(status) == [wrap |-> "", cause |-> "API Error: " \o ToString(status)]
InvalidStructure == [wrap |-> "", cause |-> "Invalid API response structure"]

CallGeminiAPI(resp) ==
    IF ~resp.json THEN Throw(SyntaxError)   \* response.json() rejects
    ELSE IF ~resp.ok THEN Throw(ApiError(resp.status))
    ELSE IF resp.shape \in {"no_candidates", "no_content"}
    THEN Throw(InvalidStructure)
    ELSE IF resp.shape = "no_parts" THEN Throw(TypeError)
    ELSE Return([text |-> IF resp.shape = "no_text" THEN UndefinedText
                          ELSE resp.text,
                 timeTaken |-> 1,
                 timestamp |-> "now",
                 usage |-> UsageOf(resp.usageMetadata)])

-----------------------------------------------------------------------------
(* extractForms and generateFieldValues                                    *)

Wrapped(wrap, e) == [wrap |-> wrap, cause |-> e.cause]

\* parsed data, then performance and usage of the call
WithCallData(parsedData, result) ==
    Merge(parsedData,
          [performance |-> [timeTaken |-> result.timeTaken,
                            timestamp |-> result.timestamp],
           usage |-> result.usage])

\* a plausible bug: an unparsable or failed reply read as "no forms"
ExtractFormsSwallowing(resp) ==
    LET result == CallGeminiAPI(resp)
    IN  IF result.ok /\ ParseReply(result.value.text).ok
        THEN Return(WithCallData(ParseReply(result.value.text).value,
                                 result.value))
        ELSE Return([forms |-> <<>>])

ExtractForms(resp) ==
    LET result == CallGeminiAPI(resp)
    IN  IF ~result.ok
        THEN Throw(Wrapped("Failed to extract forms", result.error))
        ELSE LET parsedData == ParseReply(result.value.text)
             IN  IF ~parsedData.ok
                 THEN Throw(Wrapped("Failed to extract forms", parsedData.error))
                 ELSE Return(WithCallData(parsedData.value, result.value))

GenerateFieldValues(formData, resp) ==
    LET result == CallGeminiAPI(resp)
    IN  IF ~result.ok
        THEN Throw(Wrapped("Failed to generate field values", result.error))
        ELSE LET parsedData == ParseReply(result.value.text)
             IN  IF ~parsedData.ok
                 THEN Throw(Wrapped("Failed to generate field values",
                                    parsedData.error))
                 ELSE Return(WithCallData(parsedData.value, result.value))

-----------------------------------------------------------------------------
(* analyzeFormsComplete                                                    *)

ExtractCall == [purpose |-> "extract", form |-> 0]
GenerateCall(index) == [purpose |-> "generate", form |-> index]

\* a plausible bug: the failure of one form recorded without its cause
FormWithValuesLosingError(form, outcome) ==
    IF outcome.ok
    THEN Merge(form,
               [suggestedValues |-> Field(outcome.value, "values"),
                validationStatus |-> Field(outcome.value, "metadata"),
                valueGenerationPerformance |->
                    Merge(outcome.value.performance,
                          [usage |-> outcome.value.usage])])
    ELSE Merge(form, [suggestedValues |-> Null, validationStatus |-> Null])

\* the try/catch around each generateFieldValues call
FormWithValues(form, outcome) ==
    IF outcome.ok
    THEN Merge(form,
               [suggestedValues |-> Field(outcome.value, "values"),
                validationStatus |-> Field(outcome.value, "metadata"),
                valueGenerationPerformance |->
                    Merge(outcome.value.performance,
                          [usage |-> outcome.value.usage])])
    ELSE Merge(form,
               [suggestedValues |-> Null,
                validationStatus |-> [error |-> outcome.error]])

\* a plausible bug: a failed value-generation call is issued once more
ModelCallsAfterRetrying(calls, index, outcome) ==
    IF outcome.ok THEN calls ELSE Append(calls, GenerateCall(index))

\* the invocations issued once a value-generation call has settled: the catch
\* block records the failure and issues nothing
ModelCallsAfter(calls, index, outcome) == calls

\* a plausible bug: results collected as they arrive (push in each callback)
StoreFormResultOnArrival(results, index, entry) ==
    LET k == Min({ j \in DOMAIN results : results[j] = Pending })
    IN  [results EXCEPT ![k] = entry]

\* Promise.all over formsData.forms.map: a result lands at its form's index
StoreFormResult(results, index, entry) == [results EXCEPT ![index] = entry]

UsageKeys ==
    {"inputTokens", "outputTokens", "totalTokens",
     "inputCost", "outputCost", "totalCost"}
ZeroUsage == [k \in UsageKeys |-> 0]
AddUsage(acc, usage) == [k \in UsageKeys |-> acc[k] + usage[k]]

\* formsData.usage?.x || 0
UsageOrZero(obj) == IF "usage" \in DOMAIN obj THEN obj.usage ELSE ZeroUsage

\* the reduce over formsWithValues, from position index on
RECURSIVE ReduceUsage(_, _, _)
ReduceUsage(acc, forms, index) ==
    IF index > Len(forms) THEN acc
    ELSE LET form == forms[index]
         IN  IF "valueGenerationPerformance" \in DOMAIN form
                /\ "usage" \in DOMAIN form.valueGenerationPerformance
             THEN ReduceUsage(AddUsage(acc, form.valueGenerationPerformance.usage),
                              forms, index + 1)
             ELSE ReduceUsage(acc, forms, index + 1)

\* sums of costs that each have six decimals, rounded to six decimals
TotalUsage(data, forms) == ReduceUsage(UsageOrZero(data), forms, 1)

\* Math.round(valueGenerationTime / formsData.forms.length)
AverageTimePerForm(valueGenerationTime, n) ==
    IF n = 0
    THEN IF valueGenerationTime = 0 THEN NaN ELSE Infinity
    ELSE Num((2 * valueGenerationTime + n) \div (2 * n))

\* elapsed milliseconds the clock can report for the value-generation phase
ElapsedTimes == {0, 7}

CompleteAnalysisResult(data, forms, valueGenerationTime) ==
    Merge(data,
          [forms |-> forms,
           timestamp |-> "now",
           performance |->
               [extractionTime |-> 1,
                valueGenerationTime |-> valueGenerationTime,
                totalTime |-> 1 + valueGenerationTime,
                averageTimePerForm |->
                    AverageTimePerForm(valueGenerationTime, Len(data.forms))],
           totalUsage |-> TotalUsage(data, forms)])

AnalyzeInit ==
    /\ apc = "idle"
    /\ formsData = NoResult
    /\ formsWithValues = <<>>
    /\ genPending = {}
    /\ analysis = NoResult
    /\ analysisError = NoError
    /\ modelCalls = <<>>
    /\ extractServed = NoResult
    /\ genServed = <<>>
    /\ genOvertook = FALSE

\* analyzeFormsComplete(htmlContent) up to its first await: extraction is asked
AnalyzeFormsComplete ==
    /\ apc = "idle"
    /\ apc' = "extracting"
    /\ modelCalls' = Append(modelCalls, ExtractCall)
    /\ UNCHANGED <<formsData, formsWithValues, genPending, analysis,
                   analysisError, extractServed, genServed, genOvertook>>
    /\ UNCHANGED exceptAnalyze

\* extractForms settles: throw, or ask for the values of every form
ExtractSettle ==
    /\ apc = "extracting"
    /\ \E resp \in ExtractResponses :
         LET out == ExtractForms(resp)
         IN  /\ extractServed' = resp
             /\ IF ~out.ok
                THEN /\ apc' = "failed"
                     /\ analysisError' = out.error
                     /\ UNCHANGED <<formsData, formsWithValues, genPending,
                                    modelCalls>>
                ELSE IF "forms" \notin DOMAIN out.value
                THEN \* formsData.forms.length on undefined
                     /\ apc' = "failed"
                     /\ analysisError' = TypeError
                     /\ formsData' = out.value
                     /\ UNCHANGED <<formsWithValues, genPending, modelCalls>>
                ELSE /\ apc' = "generating"
                     /\ formsData' = out.value
                     /\ formsWithValues' =
                            [i \in 1..Len(out.value.forms) |-> Pending]
                     /\ genPending' = 1..Len(out.value.forms)
                     /\ modelCalls' =
                            modelCalls \o
                            [i \in 1..Len(out.value.forms) |-> GenerateCall(i)]
                     /\ analysisError' = analysisError
    /\ UNCHANGED <<analysis, genServed, genOvertook>>
    /\ UNCHANGED exceptAnalyze

\* one generateFieldValues call settles, in any order
GenerateSettle ==
    /\ apc = "generating"
    /\ \E index \in genPending, resp \in GenResponses :
         LET form == formsData.forms[index]
         IN  /\ formsWithValues' =
                    StoreFormResult(formsWithValues, index,
                        FormWithValues(form, GenerateFieldValues(form, resp)))
             /\ genPending' = genPending \ {index}
             /\ genServed' = (index :> resp) @@ genServed
             /\ genOvertook' = (genOvertook \/ \E j \in genPending : j < index)
             /\ modelCalls' =
                    ModelCallsAfter(modelCalls, index,
                                    GenerateFieldValues(form, resp))
    /\ UNCHANGED <<apc, formsData, analysis, analysisError, extractServed>>
    /\ UNCHANGED exceptAnalyze

\* a plausible bug: the first call to settle ends the wait (Promise.race)
PromiseRace(pending) == TRUE

\* a plausible bug: a promise that nothing resolves is awaited
PromiseNeverResolved(pending) == FALSE

\* await Promise.all(...): resumes once no call is pending
PromiseAll(pending) == pending = {}

\* Promise.all resolved: sum the usage, return
Aggregate ==
    /\ apc = "generating"
    /\ PromiseAll(genPending)
    /\ \E valueGenerationTime \in ElapsedTimes :
         analysis' = CompleteAnalysisResult(formsData, formsWithValues,
                                            valueGenerationTime)
    /\ apc' = "done"
    /\ UNCHANGED <<formsData, formsWithValues, genPending, analysisError,
                   modelCalls, extractServed, genServed, genOvertook>>
    /\ UNCHANGED exceptAnalyze

-----------------------------------------------------------------------------
(* The tolerant JSON extraction on reply texts assembled from fragments.   *)

Chunks ==
    { JsonFenceOpen, PlainFenceOpen, <<NL, Fence>>, <<NL>>, <<Prose>>,
      <<ValuesJson(1)>>, <<FormsJson(1)>> }

RECURSIVE Flatten(_)
Flatten(chunks) ==
    IF chunks = <<>> THEN <<>> ELSE Head(chunks) \o Flatten(Tail(chunks))

ReplyTexts ==
    UNION { { Flatten(cs) : cs \in [1..n -> Chunks] } : n \in 0..MaxChunks }

JsonInit ==
    /\ jpc = "input"
    /\ replyText = <<>>
    /\ extracted = NoResult
    /\ reextracted = NoResult

\* the reply of the model that carries replyText
ReplyWith(text) == ApiReply("full", text, UsageMetadata(8, 4, 12))

\* extractForms on a reply whose text is replyText
ExtractFormsOnText ==
    /\ jpc = "input"
    /\ jpc' = "extractForms"
    /\ extracted' = ExtractForms(ReplyWith(replyText))
    /\ UNCHANGED <<replyText, reextracted>>
    /\ UNCHANGED exceptJson

\* generateFieldValues on a reply whose text is replyText
GenerateFieldValuesOnText ==
    /\ jpc = "input"
    /\ jpc' = "generateFieldValues"
    /\ extracted' = GenerateFieldValues(FormDescriptor(1), ReplyWith(replyText))
    /\ UNCHANGED <<replyText, reextracted>>
    /\ UNCHANGED exceptJson

-----------------------------------------------------------------------------
(* The tolerant JSON extraction on the text of an object it extracted.     *)

\* what a reply may hold between the quotes of a string, well formed or not
StringTexts ==
    UNION { [1..n -> {Prose, Fence, JsonLabel, NL, LineBreak(1), LineBreak(2)}]
            : n \in 0..MaxChars }

\* a written-out object, on one line or with the brace on a line of its own
ObjectTexts ==
    { <<ObjectStart(NumberLiterals[k])>> \o chars \o close :
        k \in DOMAIN NumberLiterals, chars \in StringTexts,
        close \in { <<StringEnd, ObjectEnd>>, <<StringEnd, NL, ObjectEnd>> } }
    \cup { <<tok>> : tok \in JsonTexts }

\* the object alone, in a fence with or without label, after commentary
RoundTripTexts ==
    { before \o object :
        before \in { <<>>, <<Prose, NL>> },
        object \in ObjectTexts }
    \cup
    { before \o open \o object \o <<NL, Fence>> :
        before \in { <<>>, <<Prose, NL>> },
        object \in ObjectTexts,
        open \in { JsonFenceOpen, PlainFenceOpen } }

\* what the parsing block made of replyText
ParsedData == ParseReply(replyText).value

\* extractForms on a reply whose text is the object extractForms extracted
\* from replyText, serialized
ExtractFormsOnSerialized ==
    /\ jpc = "extractForms"
    /\ extracted.ok
    /\ reextracted = NoResult
    /\ reextracted' = ExtractForms(ReplyWith(JSONStringify(ParsedData)))
    /\ UNCHANGED <<jpc, replyText, extracted>>
    /\ UNCHANGED exceptJson

\* the same for generateFieldValues
GenerateFieldValuesOnSerialized ==
    /\ jpc = "generateFieldValues"
    /\ extracted.ok
    /\ reextracted = NoResult
    /\ reextracted' =
           GenerateFieldValues(FormDescriptor(1),
                               ReplyWith(JSONStringify(ParsedData)))
    /\ UNCHANGED <<jpc, replyText, extracted>>
    /\ UNCHANGED exceptJson

-----------------------------------------------------------------------------
(* extractIframeSrcs on documents assembled from every kind of element.    *)

DocumentElements ==
    PageElements
    \cup { IframeTag(RelSrc(<<"x">>)),
           IframeTag(OtherSrc("absbad")),
           IframeTag(OtherSrc("javascript")),
           IframeTag(OtherSrc("blank")),
           IframeTag(OtherSrc("DATA")),
           IframeTag(NoSrc) }

Documents == UNION { [1..n -> DocumentElements] : n \in 0..MaxElems }

\* https://example.com/a/b and http://example.com:8080/c
BaseUrls == { BaseUrl, AbsSrc("http://example.com:8080", <<"c">>) }

DiscoverInit ==
    /\ dpc = "input"
    /\ docHtml = <<>>
    /\ docBase = BaseUrl
    /\ discovered = <<>>

\* extractIframeSrcs(docHtml, docBase)
ExtractIframeSrcsOnDocument ==
    /\ dpc = "input"
    /\ dpc' = "done"
    /\ discovered' = ExtractIframeSrcs(docHtml, docBase)
    /\ UNCHANGED <<docHtml, docBase>>
    /\ UNCHANGED exceptDiscover

-----------------------------------------------------------------------------
(* callGeminiAPI on every answer of the remote.                            *)

\* a count the reply may report; Absent stands for a count not reported
Absent == 0 - 1
InputTokenCounts == (0..MaxTokens) \cup {2000}
OutputTokenCounts == (0..MaxTokens) \cup {1000}

\* usageMetadata with the counts that are reported
UsageMetadataWith(prompt, candidates, total) ==
    LET all == UsageMetadata(prompt, candidates, total)
    IN  [k \in { f \in DOMAIN all : all[f] # Absent } |-> all[k]]

UsageMetadatas ==
    { UsageMetadataWith(p, c, t) :
        p \in InputTokenCounts \cup {Absent},
        c \in OutputTokenCounts \cup {Absent},
        t \in {Absent, 0, 5} }

ApiShapes == {"full", "no_candidates", "no_content", "no_parts", "no_text"}

ApiResponses ==
    { ApiFailure(400), ApiFailure(500), NotJson(502), NotJson(200) }
    \cup { ApiReply(shape, <<Prose>>, UsageMetadata(8, 4, 12)) :
             shape \in ApiShapes \ {"full"} }
    \cup { ApiReply("full", Fenced(ValuesJson(1)), um) : um \in UsageMetadatas }

CallInit ==
    /\ cpc = "input"
    /\ apiResponse = NoResult
    /\ modelReply = NoResult

\* callGeminiAPI(prompt) against the answer apiResponse
CallGeminiAPIOnResponse ==
    /\ cpc = "input"
    /\ cpc' = "done"
    /\ modelReply' = CallGeminiAPI(apiResponse)
    /\ UNCHANGED apiResponse
    /\ UNCHANGED exceptCall

-----------------------------------------------------------------------------
(* The scanner routes.  A handler awaits the service it calls, so the      *)
(* service runs to its end within the handler: FetchOutcome and            *)
(* AnalysisOutcome are fetchWithIframes and analyzeFormsComplete from      *)
(* call to return, given what the remote answers to each request.          *)

\* a value of a body field: '' | an HTML text | a form descriptor | a url
EmptyString == [kind |-> "empty", wellFormed |-> FALSE]
HtmlContent == [kind |-> "html", wellFormed |-> FALSE]
FormData == [kind |-> "form", wellFormed |-> FALSE]
Url(wellFormed) == [kind |-> "url", wellFormed |-> wellFormed]
NotGiven == [kind |-> "undefined", wellFormed |-> FALSE]

\* const { k } = req.body
BodyField(body, k) == IF k \in DOMAIN body THEN body[k] ELSE NotGiven

\* req.body: without the field, with another field only, with the field
Bodies(k, values) ==
    { [other |-> HtmlContent] }
    \cup { [f \in {k} |-> v] : v \in values \cup {EmptyString} }

\* !value
Falsy(value) == value.kind \in {"undefined", "empty"}

\* a plausible bug: the url is handed on without the format check
ParsesAsUrlUnchecked(value) == TRUE

\* new URL(url) does not throw
ParsesAsUrl(value) == value.kind = "url" /\ value.wellFormed

Message(text) == [wrap |-> "", cause |-> text]

\* res.status(400).json({ success: false, error })
BadRequest(text) ==
    [status |-> 400, body |-> [success |-> FALSE, error |-> Message(text)]]
\* res.status(500).json({ success: false, error: error.message })
ServerError(error) ==
    [status |-> 500, body |-> [success |-> FALSE, error |-> error]]
\* res.json({ success: true, data, timestamp })
Success(data) ==
    [status |-> 200,
     body |-> [success |-> TRUE, data |-> data, timestamp |-> "now"]]

\* the pages the remote web serves to the routes
RoutePages ==
    { <<Text("a")>>,
      <<Text("a"), IframeTag(AbsSrc("https://other.example", <<"w">>))>>,
      <<IframeTag(RootedSrc(<<"x">>)), Text("a"),
        IframeTag(AbsSrc("https://other.example", <<"w">>))>> }
RouteMainResponses ==
    { OkResponse(page) : page \in RoutePages } \cup { ErrResponse(404), TimedOut }

\* the sources fetchWithIframes discovers when the main url is answered resp
SourcesServed(resp) ==
    IF FetchUrl(resp).ok THEN ExtractIframeSrcs(FetchUrl(resp).value, BaseUrl)
    ELSE <<>>

\* fetchWithIframes(url), from call to return
FetchOutcome(mainResp, iframeResps) ==
    LET main == FetchUrl(mainResp)
        srcs == SourcesServed(mainResp)
    IN  IF ~main.ok THEN Throw(main.error)
        ELSE IF Len(srcs) = 0 THEN Return(PlainDocument(main.value))
        ELSE Return(AggregatedDocument(main.value, srcs,
                 [i \in 1..Len(srcs) |->
                     IframeEntry(srcs[i], FetchUrl(iframeResps[i]))]))

\* the forms analyzeFormsComplete asks values for when extraction is
\* answered resp
FormsServed(resp) ==
    IF ExtractForms(resp).ok /\ "forms" \in DOMAIN ExtractForms(resp).value
    THEN ExtractForms(resp).value.forms
    ELSE <<>>

\* analyzeFormsComplete(htmlContent), from call to return
AnalysisOutcome(extractResp, genResps, valueGenerationTime) ==
    LET formsData_ == ExtractForms(extractResp)
        forms == FormsServed(extractResp)
    IN  IF ~formsData_.ok THEN Throw(formsData_.error)
        ELSE IF "forms" \notin DOMAIN formsData_.value THEN Throw(TypeError)
        ELSE Return(CompleteAnalysisResult(formsData_.value,
                 [i \in 1..Len(forms) |->
                     FormWithValues(forms[i],
                                    GenerateFieldValues(forms[i], genResps[i]))],
                 valueGenerationTime))

\* what the remote web and the remote model answered while a request was
\* served
NothingServed == [main |-> NoResult, iframes |-> <<>>,
                  extract |-> NoResult, gen |-> <<>>]

\* the response of a handler that returns what its service call returned
ServiceResponse(outcome) ==
    IF outcome.ok THEN Success(outcome.value) ELSE ServerError(outcome.error)

\* a plausible bug: an analysis with an errored form reported as a failure
AnalysisResponseFailingOnFormError(outcome, extra) ==
    IF ~outcome.ok THEN ServerError(outcome.error)
    ELSE IF \E i \in DOMAIN outcome.value.forms :
                outcome.value.forms[i].suggestedValues = Null
    THEN ServerError(Message("value generation failed"))
    ELSE Success(Merge(outcome.value, extra))

\* the response to an analysis: data is the result, spread, then extra
AnalysisResponse(outcome, extra) ==
    IF outcome.ok THEN Success(Merge(outcome.value, extra))
    ELSE ServerError(outcome.error)

\* the data POST /analyze-url adds to the analysis
SourceData(url, document) ==
    [sourceUrl |-> url,
     htmlLength |-> Len(document.combinedHtml),
     iframeStats |-> Field(document, "stats")]

RouteInit ==
    /\ rpc = "idle"
    /\ request = NoResult
    /\ response = NoResult
    /\ routeFetchResult = NoResult
    /\ routeFetches = 0
    /\ routeModelCalls = 0
    /\ routeServed = NothingServed

\* POST /extract-forms
PostExtractForms ==
    /\ rpc = "idle"
    /\ rpc' = "responded"
    /\ \E body \in Bodies("htmlContent", {HtmlContent}) :
         LET htmlContent == BodyField(body, "htmlContent")
         IN  /\ request' = [endpoint |-> "/extract-forms", body |-> body]
             /\ IF Falsy(htmlContent)
                THEN /\ response' = BadRequest("HTML content is required")
                     /\ UNCHANGED <<routeModelCalls, routeServed>>
                ELSE \E resp \in ExtractResponses :
                       /\ response' = ServiceResponse(ExtractForms(resp))
                       /\ routeModelCalls' = routeModelCalls + 1
                       /\ routeServed' = [routeServed EXCEPT !.extract = resp]
    /\ UNCHANGED <<routeFetchResult, routeFetches>>
    /\ UNCHANGED exceptRoute

\* POST /generate-values
PostGenerateValues ==
    /\ rpc = "idle"
    /\ rpc' = "responded"
    /\ \E body \in Bodies("formData", {FormData}) :
         LET formData == BodyField(body, "formData")
         IN  /\ request' = [endpoint |-> "/generate-values", body |-> body]
             /\ IF Falsy(formData)
                THEN /\ response' = BadRequest("Form data is required")
                     /\ UNCHANGED <<routeModelCalls, routeServed>>
                ELSE \E resp \in GenResponses :
                       /\ response' =
                              ServiceResponse(
                                  GenerateFieldValues(FormDescriptor(1), resp))
                       /\ routeModelCalls' = routeModelCalls + 1
                       /\ routeServed' = [routeServed EXCEPT !.gen = <<resp>>]
    /\ UNCHANGED <<routeFetchResult, routeFetches>>
    /\ UNCHANGED exceptRoute

\* POST /analyze-complete
PostAnalyzeComplete ==
    /\ rpc = "idle"
    /\ rpc' = "responded"
    /\ \E body \in Bodies("htmlContent", {HtmlContent}) :
         LET htmlContent == BodyField(body, "htmlContent")
         IN  /\ request' = [endpoint |-> "/analyze-complete", body |-> body]
             /\ IF Falsy(htmlContent)
                THEN /\ response' = BadRequest("HTML content is required")
                     /\ UNCHANGED <<routeModelCalls, routeServed>>
                ELSE \E extractResp \in ExtractResponses :
                     \E genResps \in [1..Len(FormsServed(extractResp))
                                        -> GenResponses] :
                     \E valueGenerationTime \in ElapsedTimes :
                       /\ response' =
                              ServiceResponse(
                                  AnalysisOutcome(extractResp, genResps,
                                                  valueGenerationTime))
                       /\ routeModelCalls' = routeModelCalls + 1 + Len(genResps)
                       /\ routeServed' = [routeServed EXCEPT
                                             !.extract = extractResp,
                                             !.gen = genResps]
    /\ UNCHANGED <<routeFetchResult, routeFetches>>
    /\ UNCHANGED exceptRoute

\* POST /fetch-url
PostFetchUrl ==
    /\ rpc = "idle"
    /\ rpc' = "responded"
    /\ \E body \in Bodies("url", {Url(TRUE), Url(FALSE)}) :
         LET url == BodyField(body, "url")
         IN  /\ request' = [endpoint |-> "/fetch-url", body |-> body]
             /\ IF Falsy(url)
                THEN /\ response' = BadRequest("URL is required")
                     /\ UNCHANGED <<routeFetches, routeServed>>
                ELSE IF ~ParsesAsUrl(url)
                THEN /\ response' = BadRequest("Invalid URL format")
                     /\ UNCHANGED <<routeFetches, routeServed>>
                ELSE \E mainResp \in RouteMainResponses :
                     \E iframeResps \in [1..Len(SourcesServed(mainResp))
                                           -> IframeResponses] :
                       LET result == FetchOutcome(mainResp, iframeResps)
                       IN  /\ response' =
                                  IF ~result.ok THEN ServerError(result.error)
                                  ELSE IF "stats" \notin DOMAIN result.value
                                  THEN \* result.stats.successfulIframes
                                       ServerError(TypeError)
                                  ELSE [status |-> 200,
                                        body |->
                                          [success |-> TRUE,
                                           data |->
                                             [htmlContent |->
                                                  result.value.combinedHtml,
                                              length |->
                                                  Len(result.value.combinedHtml),
                                              url |-> url,
                                              iframeStats |->
                                                  result.value.stats]]]
                           /\ routeFetches' = routeFetches + 1 + Len(iframeResps)
                           /\ routeServed' = [routeServed EXCEPT
                                                 !.main = mainResp,
                                                 !.iframes = iframeResps]
    /\ UNCHANGED <<routeFetchResult, routeModelCalls>>
    /\ UNCHANGED exceptRoute

\* POST /analyze-url up to the return of fetchWithIframes and the log line
\* that follows it
PostAnalyzeUrl ==
    /\ rpc = "idle"
    /\ \E body \in Bodies("url", {Url(TRUE), Url(FALSE)}) :
         LET url == BodyField(body, "url")
         IN  /\ request' = [endpoint |-> "/analyze-url", body |-> body]
             /\ IF Falsy(url)
                THEN /\ response' = BadRequest("URL is required")
                     /\ rpc' = "responded"
                     /\ UNCHANGED <<routeFetchResult, routeFetches, routeServed>>
                ELSE IF ~ParsesAsUrl(url)
                THEN /\ response' = BadRequest("Invalid URL format")
                     /\ rpc' = "responded"
                     /\ UNCHANGED <<routeFetchResult, routeFetches, routeServed>>
                ELSE \E mainResp \in RouteMainResponses :
                     \E iframeResps \in [1..Len(SourcesServed(mainResp))
                                           -> IframeResponses] :
                       LET fetchResult_ == FetchOutcome(mainResp, iframeResps)
                       IN  /\ routeFetches' = routeFetches + 1 + Len(iframeResps)
                           /\ routeServed' = [routeServed EXCEPT
                                                 !.main = mainResp,
                                                 !.iframes = iframeResps]
                           /\ IF ~fetchResult_.ok
                              THEN /\ response' = ServerError(fetchResult_.error)
                                   /\ rpc' = "responded"
                                   /\ UNCHANGED routeFetchResult
                              ELSE IF "stats" \notin DOMAIN fetchResult_.value
                              THEN \* fetchResult.stats.successfulIframes
                                   /\ response' = ServerError(TypeError)
                                   /\ rpc' = "responded"
                                   /\ UNCHANGED routeFetchResult
                              ELSE /\ routeFetchResult' = fetchResult_.value
                                   /\ rpc' = "fetched"
                                   /\ UNCHANGED response
    /\ UNCHANGED routeModelCalls
    /\ UNCHANGED exceptRoute

\* POST /analyze-url from the call of analyzeFormsComplete on
AnalyzeUrlRespond ==
    /\ rpc = "fetched"
    /\ rpc' = "responded"
    /\ \E extractResp \in ExtractResponses :
       \E genResps \in [1..Len(FormsServed(extractResp)) -> GenResponses] :
       \E valueGenerationTime \in ElapsedTimes :
         /\ response' =
                AnalysisResponse(
                    AnalysisOutcome(extractResp, genResps, valueGenerationTime),
                    SourceData(BodyField(request.body, "url"), routeFetchResult))
         /\ routeModelCalls' = routeModelCalls + 1 + Len(genResps)
         /\ routeServed' = [routeServed EXCEPT !.extract = extractResp,
                                               !.gen = genResps]
    /\ UNCHANGED <<request, routeFetchResult, routeFetches>>
    /\ UNCHANGED exceptRoute

-----------------------------------------------------------------------------
(* Concurrent calls.  The routes call the two exported instances, one      *)
(* GeminiService and one HtmlFetcherService for the whole process; their   *)
(* fields are set in the constructors and read afterwards.  What a call    *)
(* works on is declared const or let inside the method: it lives in the    *)
(* activation of that call.  Between two awaits a call runs alone, so a    *)
(* step of one request is atomic and the steps of the requests interleave. *)

Requests == 1..MaxRequests

\* a plausible bug: what the calls work on kept in fields of the instance,
\* which all requests share
InstanceFields(r) == 1

\* the activation that holds the local variables of the call of request r
Activation(r) == r

NewActivation ==
    [pc |-> "idle",
     mainHtml |-> <<>>, iframeSrcs |-> <<>>, iframeContents |-> <<>>,
     iframePending |-> {},
     formsData |-> NoResult, formsWithValues |-> <<>>, genPending |-> {},
     returned |-> NoResult, thrown |-> NoError]

\* what the remote answers while several requests are served
ConcurrentMainResponses ==
    { OkResponse(<<Text("a")>>),
      OkResponse(<<IframeTag(RootedSrc(<<"x">>)), Text("a"),
                   IframeTag(AbsSrc("https://other.example", <<"w">>))>>),
      ErrResponse(404) }
ConcurrentIframeResponses == { OkResponse(<<Text("i")>>), TimedOut }
ConcurrentExtractResponses ==
    { ApiFailure(500),
      ApiReply("full", <<NoFormsJson>>, NoUsageMetadata),
      ApiReply("full", Fenced(FormsJson(2)), UsageMetadata(8, 4, 12)) }
ConcurrentGenResponses ==
    { ApiReply("full", Fenced(ValuesJson(1)), UsageMetadata(4, 8, 12)),
      ApiReply("full", <<Prose>>, UsageMetadata(4, 4, 8)) }

NothingServedYet ==
    [main |-> NoResult, iframes |-> <<>>, extract |-> NoResult, gen |-> <<>>,
     elapsed |-> 0]

ConcurrentInit ==
    /\ operation = [r \in Requests |-> "fetchWithIframes"]
    /\ frames = [a \in Requests |-> NewActivation]
    /\ servedTo = [r \in Requests |-> NothingServedYet]

\* fetchWithIframes(url) of one request up to its first await
RequestFetchWithIframes ==
    /\ \E r \in Requests :
         LET a == Activation(r)
         IN  /\ operation[r] = "fetchWithIframes"
             /\ frames[a].pc = "idle"
             /\ frames' = [frames EXCEPT ![a].pc = "main"]
    /\ UNCHANGED <<operation, servedTo>>
    /\ UNCHANGED exceptConcurrent

\* the main fetch of one request settles
RequestMainFetchSettle ==
    /\ \E r \in Requests, resp \in ConcurrentMainResponses :
         LET a == Activation(r)
             out == FetchUrl(resp)
             srcs == ExtractIframeSrcs(out.value, BaseUrl)
         IN  /\ operation[r] = "fetchWithIframes"
             /\ frames[a].pc = "main"
             /\ servedTo' = [servedTo EXCEPT ![r].main = resp]
             /\ frames' =
                  [frames EXCEPT ![a] =
                     IF ~out.ok
                     THEN [@ EXCEPT !.pc = "failed", !.thrown = out.error]
                     ELSE IF Len(srcs) = 0
                     THEN [@ EXCEPT !.pc = "done",
                                    !.mainHtml = out.value,
                                    !.returned = PlainDocument(out.value)]
                     ELSE [@ EXCEPT !.pc = "iframes",
                                    !.mainHtml = out.value,
                                    !.iframeSrcs = srcs,
                                    !.iframeContents =
                                        [i \in 1..Len(srcs) |-> Pending],
                                    !.iframePending = 1..Len(srcs)]]
    /\ UNCHANGED operation
    /\ UNCHANGED exceptConcurrent

\* one iframe fetch of one request settles
RequestIframeFetchSettle ==
    /\ \E r \in Requests, resp \in ConcurrentIframeResponses :
         LET a == Activation(r)
         IN  /\ operation[r] = "fetchWithIframes"
             /\ frames[a].pc = "iframes"
             /\ \E index \in frames[a].iframePending :
                  /\ frames' =
                       [frames EXCEPT
                          ![a].iframeContents =
                              StoreIframeResult(@, index,
                                  IframeEntry(frames[a].iframeSrcs[index],
                                              FetchUrl(resp))),
                          ![a].iframePending = @ \ {index}]
                  /\ servedTo' =
                       [servedTo EXCEPT ![r].iframes = (index :> resp) @@ @]
    /\ UNCHANGED operation
    /\ UNCHANGED exceptConcurrent

\* Promise.all of one request resolved: combine, count, return
RequestFetchAssemble ==
    /\ \E r \in Requests :
         LET a == Activation(r)
         IN  /\ operation[r] = "fetchWithIframes"
             /\ frames[a].pc = "iframes"
             /\ PromiseAll(frames[a].iframePending)
             /\ frames' =
                  [frames EXCEPT
                     ![a].pc = "done",
                     ![a].returned =
                         AggregatedDocument(frames[a].mainHtml,
                                            frames[a].iframeSrcs,
                                            frames[a].iframeContents)]
    /\ UNCHANGED <<operation, servedTo>>
    /\ UNCHANGED exceptConcurrent

\* analyzeFormsComplete(htmlContent) of one request up to its first await
RequestAnalyzeFormsComplete ==
    /\ \E r \in Requests :
         LET a == Activation(r)
         IN  /\ operation[r] = "analyzeFormsComplete"
             /\ frames[a].pc = "idle"
             /\ frames' = [frames EXCEPT ![a].pc = "extracting"]
    /\ UNCHANGED <<operation, servedTo>>
    /\ UNCHANGED exceptConcurrent

\* extractForms of one request settles
RequestExtractSettle ==
    /\ \E r \in Requests, resp \in ConcurrentExtractResponses :
         LET a == Activation(r)
             out == ExtractForms(resp)
         IN  /\ operation[r] = "analyzeFormsComplete"
             /\ frames[a].pc = "extracting"
             /\ servedTo' = [servedTo EXCEPT ![r].extract = resp]
             /\ frames' =
                  [frames EXCEPT ![a] =
                     IF ~out.ok
                     THEN [@ EXCEPT !.pc = "failed", !.thrown = out.error]
                     ELSE IF "forms" \notin DOMAIN out.value
                     THEN [@ EXCEPT !.pc = "failed", !.thrown = TypeError,
                                    !.formsData = out.value]
                     ELSE [@ EXCEPT !.pc = "generating",
                                    !.formsData = out.value,
                                    !.formsWithValues =
                                        [i \in 1..Len(out.value.forms)
                                            |-> Pending],
                                    !.genPending = 1..Len(out.value.forms)]]
    /\ UNCHANGED operation
    /\ UNCHANGED exceptConcurrent

\* one generateFieldValues call of one request settles
RequestGenerateSettle ==
    /\ \E r \in Requests, resp \in ConcurrentGenResponses :
         LET a == Activation(r)
         IN  /\ operation[r] = "analyzeFormsComplete"
             /\ frames[a].pc = "generating"
             /\ \E index \in frames[a].genPending :
                  LET form == frames[a].formsData.forms[index]
                  IN  /\ frames' =
                           [frames EXCEPT
                              ![a].formsWithValues =
                                  StoreFormResult(@, index,
                                      FormWithValues(form,
                                          GenerateFieldValues(form, resp))),
                              ![a].genPending = @ \ {index}]
                      /\ servedTo' =
                           [servedTo EXCEPT ![r].gen = (index :> resp) @@ @]
    /\ UNCHANGED operation
    /\ UNCHANGED exceptConcurrent

\* Promise.all of one request resolved: sum the usage, return
RequestAggregate ==
    /\ \E r \in Requests, valueGenerationTime \in ElapsedTimes :
         LET a == Activation(r)
         IN  /\ operation[r] = "analyzeFormsComplete"
             /\ frames[a].pc = "generating"
             /\ PromiseAll(frames[a].genPending)
             /\ frames' =
                  [frames EXCEPT
                     ![a].pc = "done",
                     ![a].returned =
                         CompleteAnalysisResult(frames[a].formsData,
                                                frames[a].formsWithValues,
                                                valueGenerationTime)]
             /\ servedTo' =
                  [servedTo EXCEPT ![r].elapsed = valueGenerationTime]
    /\ UNCHANGED operation
    /\ UNCHANGED exceptConcurrent

-----------------------------------------------------------------------------
(* The benchmark script, src/scripts/benchmark.js: every website is tested *)
(* in every run, one test after the other, through POST /fetch-url and     *)
(* POST /analyze-complete of the server; then the statistics are computed, *)
(* the report is generated and the files are written.  Times are not       *)
(* modelled beyond their presence, and of calculateMetrics only min and    *)
(* max are kept.                                                           *)

Websites == 1..MaxWebsites
Runs == 1..MaxRuns

\* fetch(...) rejected: the server is not reachable
ConnectionRefused ==
    [status |-> 0,
     body |-> [success |-> FALSE, error |-> Message("ECONNREFUSED")]]

\* response.ok
ResponseOk(resp) == resp.status \in 200..299

\* what the server answers to POST /fetch-url, to POST /analyze-complete
BenchmarkFetchAnswers ==
    { [status |-> 200,
       body |-> [success |-> TRUE,
                 data |-> [htmlContent |-> <<Text("a")>>, length |-> 1,
                           url |-> Url(TRUE),
                           iframeStats |-> [totalIframes |-> 1,
                                            successfulIframes |-> 0,
                                            failedIframes |-> 1]]]],
      ServerError(HttpError(404)) }
BenchmarkAnalysisAnswers ==
    { ServiceResponse(
          AnalysisOutcome(
              ApiReply("full", Fenced(FormsJson(1)), UsageMetadata(8, 4, 12)),
              <<ApiReply("full", Fenced(ValuesJson(1)),
                         UsageMetadata(4, 8, 12))>>,
              7)),
      ServiceResponse(AnalysisOutcome(ApiFailure(500), <<>>, 7)) }

\* {}
EmptyObject == [empty |-> TRUE]

\* fetchWebsite(url), given the answer of the server
FetchWebsite(resp) ==
    IF resp = ConnectionRefused
    THEN [success |-> FALSE, error |-> resp.body.error, fetchTime |-> 1]
    ELSE IF ~ResponseOk(resp)
    THEN [success |-> FALSE, error |-> resp.body.error, fetchTime |-> 1]
    ELSE [success |-> TRUE,
          htmlContent |-> resp.body.data.htmlContent,
          htmlLength |-> resp.body.data.length,
          fetchTime |-> 1]

\* analyzeWebsite(htmlContent), given the answer of the server
AnalyzeWebsite(resp) ==
    IF resp = ConnectionRefused
    THEN [success |-> FALSE, error |-> resp.body.error, analysisTime |-> 2]
    ELSE IF ~ResponseOk(resp)
    THEN [success |-> FALSE, error |-> resp.body.error, analysisTime |-> 2]
    ELSE IF "summary" \notin DOMAIN resp.body.data
    THEN \* result.data.summary.totalFunctionalForms in the log line
         [success |-> FALSE, error |-> TypeError, analysisTime |-> 2]
    ELSE [success |-> TRUE, data |-> resp.body.data, analysisTime |-> 2]

\* r.fetch.success, r.analysis.success
FetchSuccess(r) == "success" \in DOMAIN r.fetch /\ r.fetch.success
AnalysisSuccess(r) == "success" \in DOMAIN r.analysis /\ r.analysis.success

\* the result of benchmarkWebsite when the fetch failed
SkippedResult(website, run, fetchResult_) ==
    [name |-> website, runNumber |-> run,
     fetch |-> fetchResult_, analysis |-> EmptyObject]

\* the result of benchmarkWebsite when the analysis was made
AnalysedResult(website, run, fetchResult_, analysisResult) ==
    LET result == [name |-> website, runNumber |-> run,
                   fetch |-> fetchResult_, analysis |-> analysisResult]
    IN  IF ~analysisResult.success THEN result
        ELSE Merge(result,
               [totalTime |->
                    fetchResult_.fetchTime + analysisResult.analysisTime,
                summary |->
                    [forms |-> Field(analysisResult.data.summary,
                                     "totalFunctionalForms"),
                     fields |-> Field(analysisResult.data.summary,
                                      "totalFields"),
                     formsIgnored |-> Field(analysisResult.data.summary,
                                            "formsIgnored"),
                     confidence |-> Field(analysisResult.data.summary,
                                          "confidence")],
                tokens |->
                    [input |-> analysisResult.data.totalUsage.inputTokens,
                     output |-> analysisResult.data.totalUsage.outputTokens,
                     total |-> analysisResult.data.totalUsage.totalTokens],
                cost |-> analysisResult.data.totalUsage.totalCost,
                performance |->
                    [fetchTime |-> fetchResult_.fetchTime,
                     analysisTime |-> analysisResult.analysisTime,
                     totalTime |->
                         fetchResult_.fetchTime
                            + analysisResult.analysisTime]])

\* a plausible bug: only the tests whose fetch failed counted as failed
FailedFetches(results) == SelectSeq(results, LAMBDA r : ~FetchSuccess(r))

\* results.filter(r => r.analysis.success)
SuccessfulResults(results) == SelectSeq(results, AnalysisSuccess)
\* results.filter(r => !r.fetch.success || !r.analysis.success)
FailedResults(results) ==
    SelectSeq(results, LAMBDA r : ~FetchSuccess(r) \/ ~AnalysisSuccess(r))

\* calculateMetrics, its min and max
CalculateMetrics(values) ==
    IF Len(values) = 0 THEN Null
    ELSE [min |-> Min({ values[i] : i \in DOMAIN values }),
          max |-> CHOOSE x \in { values[i] : i \in DOMAIN values } :
                      \A i \in DOMAIN values : values[i] <= x]

CalculateStatistics(results) ==
    LET successful == SuccessfulResults(results)
        failed == FailedResults(results)
    IN  IF Len(successful) = 0
        THEN [totalTests |-> Len(results),
              successful |-> 0,
              failed |-> Len(failed),
              successRate |-> 0,
              error |-> "No successful tests to analyze"]
        ELSE [totalTests |-> Len(results),
              successful |-> Len(successful),
              failed |-> Len(failed),
              successRate |-> (Len(successful) * 100) \div Len(results),
              tokens |->
                 [input |-> CalculateMetrics(
                      [i \in DOMAIN successful |-> successful[i].tokens.input]),
                  output |-> CalculateMetrics(
                      [i \in DOMAIN successful |-> successful[i].tokens.output]),
                  total |-> CalculateMetrics(
                      [i \in DOMAIN successful |-> successful[i].tokens.total])],
              performance |->
                 [fetch |-> CalculateMetrics(
                      [i \in DOMAIN successful |->
                          successful[i].performance.fetchTime]),
                  analysis |-> CalculateMetrics(
                      [i \in DOMAIN successful |->
                          successful[i].performance.analysisTime]),
                  total |-> CalculateMetrics(
                      [i \in DOMAIN successful |->
                          successful[i].performance.totalTime])],
              cost |-> CalculateMetrics(
                      [i \in DOMAIN successful |-> successful[i].cost])]

\* generateReport: the header reads statistics.performance.fetch.min and the
\* other metrics, whatever statistics holds
GenerateReport(results, stats) ==
    IF "performance" \notin DOMAIN stats
    THEN Throw(TypeError)
    ELSE Return([totalTests |-> stats.totalTests,
                 successRate |-> stats.successRate,
                 tests |-> [i \in DOMAIN results |->
                               AnalysisSuccess(results[i])]])

\* the files runBenchmark writes
ResultFiles == {"json", "txt", "csv", "consistency-csv"}

BenchmarkInit ==
    /\ bpc = "fetch"
    /\ benchRun = 1
    /\ benchSite = 1
    /\ benchFetched = NoResult
    /\ allResults = <<>>
    /\ statistics = NoResult
    /\ filesWritten = {}
    /\ benchRequests = <<>>

\* the position of the loops of runBenchmark after a test
AfterTest(pc) ==
    IF benchSite < MaxWebsites
    THEN /\ pc = "fetch"
         /\ benchSite' = benchSite + 1
         /\ benchRun' = benchRun
    ELSE IF benchRun < MaxRuns
    THEN /\ pc = "fetch"
         /\ benchSite' = 1
         /\ benchRun' = benchRun + 1
    ELSE /\ pc = "report"
         /\ UNCHANGED <<benchSite, benchRun>>

\* benchmarkWebsite up to the return of fetchWebsite: a failed fetch ends
\* the test
BenchmarkFetch ==
    /\ bpc = "fetch"
    /\ \E resp \in BenchmarkFetchAnswers \cup {ConnectionRefused} :
         LET fetchResult_ == FetchWebsite(resp)
         IN  /\ IF ~fetchResult_.success
                THEN /\ allResults' =
                           Append(allResults,
                                  SkippedResult(benchSite, benchRun,
                                                fetchResult_))
                     /\ AfterTest(bpc')
                     /\ UNCHANGED benchFetched
                ELSE /\ bpc' = "analyze"
                     /\ benchFetched' = fetchResult_
                     /\ UNCHANGED <<allResults, benchSite, benchRun>>
             /\ benchRequests' =
                    Append(benchRequests,
                           [endpoint |-> "/fetch-url", website |-> benchSite,
                            run |-> benchRun, answer |-> resp])
    /\ UNCHANGED <<statistics, filesWritten>>
    /\ UNCHANGED exceptBenchmark

\* benchmarkWebsite from the call of analyzeWebsite on
BenchmarkAnalyze ==
    /\ bpc = "analyze"
    /\ \E resp \in BenchmarkAnalysisAnswers :
         /\ allResults' =
                Append(allResults,
                       AnalysedResult(benchSite, benchRun, benchFetched,
                                      AnalyzeWebsite(resp)))
         /\ benchRequests' =
                Append(benchRequests,
                       [endpoint |-> "/analyze-complete", website |-> benchSite,
                        run |-> benchRun, answer |-> resp])
    /\ AfterTest(bpc')
    /\ benchFetched' = NoResult
    /\ UNCHANGED <<statistics, filesWritten>>
    /\ UNCHANGED exceptBenchmark

\* runBenchmark after the loops: statistics, report, files; an error ends
\* the process with exit code 1
BenchmarkReport ==
    /\ bpc = "report"
    /\ statistics' = CalculateStatistics(allResults)
    /\ IF GenerateReport(allResults, CalculateStatistics(allResults)).ok
       THEN /\ bpc' = "complete"
            /\ filesWritten' = ResultFiles
       ELSE /\ bpc' = "exit 1"
            /\ filesWritten' = filesWritten
    /\ UNCHANGED <<benchRun, benchSite, benchFetched, allResults,
                   benchRequests>>
    /\ UNCHANGED exceptBenchmark

-----------------------------------------------------------------------------
(* Specifications.                                                         *)

Init ==
    /\ FetchInit
    /\ AnalyzeInit
    /\ JsonInit
    /\ DiscoverInit
    /\ CallInit
    /\ RouteInit
    /\ ConcurrentInit
    /\ BenchmarkInit

Next ==
    \/ FetchWithIframes
    \/ MainFetchSettle
    \/ IframeFetchSettle
    \/ FetchAssemble

\* one fetchWithIframes call against every remote behaviour
Spec == Init /\ [][Next]_vars

NextAnalyze ==
    \/ AnalyzeFormsComplete
    \/ ExtractSettle
    \/ GenerateSettle
    \/ Aggregate

\* one analyzeFormsComplete call against every remote behaviour
SpecAnalyze == Init /\ [][NextAnalyze]_vars

InitJson ==
    /\ FetchInit
    /\ AnalyzeInit
    /\ DiscoverInit
    /\ CallInit
    /\ RouteInit
    /\ ConcurrentInit
    /\ BenchmarkInit
    /\ jpc = "input"
    /\ replyText \in ReplyTexts
    /\ extracted = NoResult
    /\ reextracted = NoResult

NextJson ==
    \/ ExtractFormsOnText
    \/ GenerateFieldValuesOnText

InitEither ==
    /\ JsonInit
    /\ DiscoverInit
    /\ CallInit
    /\ RouteInit
    /\ ConcurrentInit
    /\ BenchmarkInit
    /\ \E called \in {"fetchWithIframes", "analyzeFormsComplete"} :
          /\ fpc = (IF called = "fetchWithIframes" THEN "idle" ELSE "unused")
          /\ apc = (IF called = "analyzeFormsComplete" THEN "idle" ELSE "unused")
    /\ mainHtml = <<>>
    /\ iframeSrcs = <<>>
    /\ iframeContents = <<>>
    /\ iframePending = {}
    /\ fetchResult = NoResult
    /\ fetchError = NoError
    /\ fetchCalls = 0
    /\ discoveryRuns = 0
    /\ mainServed = NoResult
    /\ iframeServed = <<>>
    /\ iframeOvertook = FALSE
    /\ formsData = NoResult
    /\ formsWithValues = <<>>
    /\ genPending = {}
    /\ analysis = NoResult
    /\ analysisError = NoError
    /\ modelCalls = <<>>
    /\ extractServed = NoResult
    /\ genServed = <<>>
    /\ genOvertook = FALSE

NextEither ==
    \/ FetchWithIframes
    \/ MainFetchSettle
    \/ IframeFetchSettle
    \/ FetchAssemble
    \/ AnalyzeFormsComplete
    \/ ExtractSettle
    \/ GenerateSettle
    \/ Aggregate

\* one run of either operation, fetchWithIframes or analyzeFormsComplete
SpecEither == InitEither /\ [][NextEither]_vars

\* the parsing block on every reply text of the bound
SpecJson == InitJson /\ [][NextJson]_vars

\* the event loop runs the code after an await once what is awaited has
\* settled: the continuation of a resolved Promise.all is never left waiting
Continuations == WF_vars(FetchAssemble) /\ WF_vars(Aggregate)

\* one run of either operation, scheduled by the event loop
SpecScheduled == InitEither /\ [][NextEither]_vars /\ Continuations

InitDiscover ==
    /\ FetchInit
    /\ AnalyzeInit
    /\ JsonInit
    /\ CallInit
    /\ RouteInit
    /\ ConcurrentInit
    /\ BenchmarkInit
    /\ dpc = "input"
    /\ docHtml \in Documents
    /\ docBase \in BaseUrls
    /\ discovered = <<>>

NextDiscover == ExtractIframeSrcsOnDocument

\* extractIframeSrcs on every document of the bound
SpecDiscover == InitDiscover /\ [][NextDiscover]_vars

NextRoutes ==
    \/ PostExtractForms
    \/ PostGenerateValues
    \/ PostAnalyzeComplete
    \/ PostFetchUrl
    \/ PostAnalyzeUrl
    \/ AnalyzeUrlRespond

\* one request to the scanner routes, against every remote behaviour
SpecRoutes == Init /\ [][NextRoutes]_vars

InitCall ==
    /\ FetchInit
    /\ AnalyzeInit
    /\ JsonInit
    /\ DiscoverInit
    /\ RouteInit
    /\ ConcurrentInit
    /\ BenchmarkInit
    /\ cpc = "input"
    /\ apiResponse \in ApiResponses
    /\ modelReply = NoResult

NextCall == CallGeminiAPIOnResponse

\* callGeminiAPI on every answer of the remote
SpecCall == InitCall /\ [][NextCall]_vars

InitRoundTrip ==
    /\ FetchInit
    /\ AnalyzeInit
    /\ DiscoverInit
    /\ CallInit
    /\ RouteInit
    /\ ConcurrentInit
    /\ BenchmarkInit
    /\ jpc = "input"
    /\ replyText \in RoundTripTexts
    /\ extracted = NoResult
    /\ reextracted = NoResult

NextRoundTrip ==
    \/ ExtractFormsOnText
    \/ GenerateFieldValuesOnText
    \/ ExtractFormsOnSerialized
    \/ GenerateFieldValuesOnSerialized

\* the parsing block on the text of an object, then on what it extracted
SpecRoundTrip == InitRoundTrip /\ [][NextRoundTrip]_vars

InitConcurrent ==
    /\ FetchInit
    /\ AnalyzeInit
    /\ JsonInit
    /\ DiscoverInit
    /\ CallInit
    /\ RouteInit
    /\ BenchmarkInit
    /\ operation \in [Requests -> {"fetchWithIframes", "analyzeFormsComplete"}]
    /\ frames = [a \in Requests |-> NewActivation]
    /\ servedTo = [r \in Requests |-> NothingServedYet]

NextConcurrent ==
    \/ RequestFetchWithIframes
    \/ RequestMainFetchSettle
    \/ RequestIframeFetchSettle
    \/ RequestFetchAssemble
    \/ RequestAnalyzeFormsComplete
    \/ RequestExtractSettle
    \/ RequestGenerateSettle
    \/ RequestAggregate

\* several requests at a time, every interleaving of their steps
SpecConcurrent == InitConcurrent /\ [][NextConcurrent]_vars

NextBenchmark ==
    \/ BenchmarkFetch
    \/ BenchmarkAnalyze
    \/ BenchmarkReport

\* one run of the benchmark script against every behaviour of the server
SpecBenchmark == Init /\ [][NextBenchmark]_vars

-----------------------------------------------------------------------------
(* Properties of fetchWithIframes (Spec).                                  *)

MainSettled == fpc \notin {"idle", "main"}
FetchSucceeded(resp) == resp.kind = "response" /\ resp.ok
\* the message fetchUrl's error carries for a failed fetch
FailureMessage(resp) ==
    IF resp.kind = "timeout" THEN "network timeout"
    ELSE "HTTP " \o ToString(resp.status)

\* marker and body of the successfully fetched iframes from index i on, in
\* the order of iframeSrcs, read off what the remote served
RECURSIVE DiscoveryOrderText(_)
DiscoveryOrderText(i) ==
    IF i > Len(iframeSrcs) THEN <<>>
    ELSE (IF FetchSucceeded(iframeServed[i]) /\ iframeServed[i].body # <<>>
          THEN <<Marker(i, iframeSrcs[i])>> \o iframeServed[i].body
          ELSE <<>>) \o DiscoveryOrderText(i + 1)

\* C1: whatever the completion order of the iframe fetches, the combinedHtml
\* of a returned document is the main body followed by the bodies of the
\* successfully fetched iframes (each behind its marker) in the order of
\* iframeSrcs.
C1_CombinedInDiscoveryOrder ==
    fpc = "done" =>
        fetchResult.combinedHtml = mainServed.body \o DiscoveryOrderText(1)

\* C1 witness: a later iframe fetched before an earlier one, the first two
\* iframes both with bodies.
C1_Witness ==
    /\ fpc = "done"
    /\ Len(iframeSrcs) >= 2
    /\ iframeOvertook
    /\ iframeSrcs[1] # iframeSrcs[2]
    /\ \A i \in 1..2 : FetchSucceeded(iframeServed[i])
                       /\ iframeServed[i].body # <<>>

\* C2: once the main fetch has succeeded the call never fails; every iframe
\* fetch that failed is recorded at its index as success=false with empty
\* content and an error message, and a returned document has one entry per
\* discovered source, each under its own src.
C2_IframeFailuresRecorded ==
    (MainSettled /\ FetchSucceeded(mainServed)) =>
        /\ fpc # "failed"
        /\ fetchError = NoError
        /\ \A i \in DOMAIN iframeServed :
              ~FetchSucceeded(iframeServed[i]) =>
                  /\ iframeContents[i].src = iframeSrcs[i]
                  /\ iframeContents[i].success = FALSE
                  /\ iframeContents[i].content = <<>>
                  /\ "error" \in DOMAIN iframeContents[i]
                  /\ iframeContents[i].error = FailureMessage(iframeServed[i])
        /\ fpc = "done" =>
              /\ Len(fetchResult.iframes) = Len(iframeSrcs)
              /\ \A i \in 1..Len(iframeSrcs) :
                    /\ fetchResult.iframes[i].src = iframeSrcs[i]
                    /\ fetchResult.iframes[i].success
                           = FetchSucceeded(iframeServed[i])

\* C2 witness: a document returned although the first of three iframe
\* fetches timed out and the third was answered 404, the second succeeding.
C2_Witness ==
    /\ fpc = "done"
    /\ Len(iframeSrcs) = 3
    /\ iframeServed[1].kind = "timeout"
    /\ FetchSucceeded(iframeServed[2])
    /\ iframeServed[3].kind = "response" /\ ~iframeServed[3].ok

\* C3: when the main fetch fails (non-success status or timeout) the call
\* fails with that error, returns no document, and neither discovers nor
\* fetches any iframe.
C3_MainFailureFatal ==
    (MainSettled /\ ~FetchSucceeded(mainServed)) =>
        /\ fpc = "failed"
        /\ fetchError.cause = FailureMessage(mainServed)
        /\ fetchResult = NoResult
        /\ discoveryRuns = 0
        /\ fetchCalls = 1
        /\ iframeServed = <<>>

\* C3 witness: the main url answered with a non-success status.
C3_Witness ==
    /\ fpc = "failed"
    /\ mainServed.kind = "response"
    /\ ~mainServed.ok

\* C10: every returned document carries stats with successfulIframes +
\* failedIframes = totalIframes, totalIframes the number of discovered
\* sources and successfulIframes the number of entries with success=true.
C10_StatsConsistent ==
    fpc = "done" =>
        /\ "stats" \in DOMAIN fetchResult
        /\ fetchResult.stats.successfulIframes + fetchResult.stats.failedIframes
               = fetchResult.stats.totalIframes
        /\ fetchResult.stats.totalIframes = Len(iframeSrcs)
        /\ fetchResult.stats.successfulIframes
               = Cardinality({ i \in DOMAIN fetchResult.iframes :
                                  fetchResult.iframes[i].success })

-----------------------------------------------------------------------------
(* Properties of analyzeFormsComplete (SpecAnalyze).                       *)

ExtractSettled == apc \notin {"idle", "extracting"}
\* the model call fails, or its reply text cannot be parsed
CallFails(resp) ==
    \/ ~resp.ok
    \/ resp.shape # "full"
    \/ ~ParseReply(resp.text).ok
\* what the reply of a call that did not fail parses to
ReplyObject(resp) == ParseReply(resp.text).value
\* extraction returned form descriptors
FormsExtracted ==
    /\ ExtractSettled
    /\ ~CallFails(extractServed)
    /\ "forms" \in DOMAIN ReplyObject(extractServed)
ExtractedForms == ReplyObject(extractServed).forms

\* C4: when extraction returned n form descriptors the analysis never fails,
\* and the completed analysis has exactly n forms: a form whose value
\* generation failed has suggestedValues null and validationStatus carrying
\* the error, every other form has suggestedValues and validationStatus from
\* its own reply.
C4_PartialFailureIsolated ==
    FormsExtracted =>
        /\ apc \in {"generating", "done"}
        /\ analysisError = NoError
        /\ apc = "done" =>
              /\ Len(analysis.forms) = Len(ExtractedForms)
              /\ \A i \in 1..Len(ExtractedForms) :
                    IF CallFails(genServed[i])
                    THEN /\ analysis.forms[i].suggestedValues = Null
                         /\ DOMAIN analysis.forms[i].validationStatus = {"error"}
                         /\ analysis.forms[i].validationStatus.error.wrap
                                = "Failed to generate field values"
                         /\ analysis.forms[i].validationStatus.error.cause # ""
                    ELSE /\ analysis.forms[i].suggestedValues
                                = Field(ReplyObject(genServed[i]), "values")
                         /\ analysis.forms[i].validationStatus
                                = Field(ReplyObject(genServed[i]), "metadata")

\* C4 witness: three forms, value generation failing for the second only.
C4_Witness ==
    /\ apc = "done"
    /\ Len(analysis.forms) = 3
    /\ ~CallFails(genServed[1])
    /\ CallFails(genServed[2])
    /\ ~CallFails(genServed[3])
    /\ analysis.forms[1].suggestedValues = [fieldName |-> 1]
    /\ analysis.forms[3].suggestedValues = [fieldName |-> 2]

\* C5: whatever the completion order of the value-generation calls, the i-th
\* form of the completed analysis is the i-th extracted descriptor (formId,
\* formType, fields) with the outcome of its own call.
C5_FormsInExtractionOrder ==
    (FormsExtracted /\ apc = "done") =>
        \A i \in 1..Len(ExtractedForms) :
            /\ analysis.forms[i].formId = ExtractedForms[i].formId
            /\ analysis.forms[i].formType = ExtractedForms[i].formType
            /\ analysis.forms[i].fields = ExtractedForms[i].fields
            /\ analysis.forms[i].suggestedValues =
                   IF CallFails(genServed[i]) THEN Null
                   ELSE Field(ReplyObject(genServed[i]), "values")

\* C5 witness: a later form's call completed before an earlier one's, with
\* different outcomes for forms 1 and 2.
C5_Witness ==
    /\ apc = "done"
    /\ genOvertook
    /\ Len(analysis.forms) >= 2
    /\ ~CallFails(genServed[1])
    /\ ~CallFails(genServed[2])
    /\ analysis.forms[1].suggestedValues # analysis.forms[2].suggestedValues

\* C6: when the extraction call fails or its reply cannot be parsed, the
\* analysis fails with the extraction error, returns nothing, and the only
\* model invocation ever issued is the extraction call.
C6_ExtractionFailureFatal ==
    (ExtractSettled /\ CallFails(extractServed)) =>
        /\ apc = "failed"
        /\ analysisError.wrap = "Failed to extract forms"
        /\ analysis = NoResult
        /\ modelCalls = <<ExtractCall>>
        /\ genServed = <<>>

\* C6 witness: the extraction reply arrived with usage but is not JSON.
C6_Witness ==
    /\ apc = "failed"
    /\ extractServed.ok
    /\ extractServed.shape = "full"
    /\ ~ParseReply(extractServed.text).ok

\* the usage a call reported: that of the reply callGeminiAPI returned,
\* nothing when the call threw before returning one
ReportedUsage(resp) ==
    IF resp.ok /\ resp.shape = "full" THEN UsageOf(resp.usageMetadata)
    ELSE ZeroUsage

RECURSIVE SumReported(_, _)
SumReported(k, i) ==
    IF i > Len(ExtractedForms) THEN 0
    ELSE ReportedUsage(genServed[i])[k] + SumReported(k, i + 1)

\* C7: in a completed analysis every count and cost of totalUsage is the
\* extraction call's usage plus the usage reported by every value-generation
\* call, those of forms recorded as failed included.
C7_TotalUsageCountsEveryCall ==
    (FormsExtracted /\ apc = "done") =>
        \A k \in UsageKeys :
            analysis.totalUsage[k] =
                ReportedUsage(extractServed)[k] + SumReported(k, 1)

-----------------------------------------------------------------------------
(* Properties of the tolerant JSON extraction (SpecJson).                  *)

Ran == jpc # "input"

\* the function returned exactly the fields of the parsed object (next to
\* performance and usage), or threw when there is none
Delivers(outcome) ==
    /\ extracted.ok = outcome.ok
    /\ outcome.ok =>
          \A k \in DOMAIN outcome.value : Field(extracted.value, k) = outcome.value[k]
    /\ ~outcome.ok => extracted.value = NoResult /\ extracted.error.cause # ""

\* C8 as claimed: the strategies are tried in order and a candidate that is
\* not valid JSON falls through to the next strategy; extraction fails only
\* when all three fail.
C8_FallsThrough ==
    Ran => Delivers(ParseReplyFallingThrough(replyText))

\* C8 amended: the first strategy whose pattern matches is the only one
\* tried: the first json-labelled fenced block if there is one, else the
\* first unlabelled fenced block, else the whole text; extraction fails when
\* that one candidate is not valid JSON.
C8_FirstMatchDecides ==
    Ran =>
        LET a == FenceMatch(replyText, JsonFenceOpen)
            b == FenceMatch(replyText, PlainFenceOpen)
        IN  /\ a.matched => Delivers(JSONParse(a.group))
            /\ (~a.matched /\ b.matched) => Delivers(JSONParse(b.group))
            /\ (~a.matched /\ ~b.matched) => Delivers(JSONParse(replyText))

\* C8 witness: the json-labelled block is not valid JSON, an unlabelled block
\* is, and the extraction has failed.
C8_Witness ==
    /\ Ran
    /\ FenceMatch(replyText, JsonFenceOpen).matched
    /\ ~JSONParse(FenceMatch(replyText, JsonFenceOpen).group).ok
    /\ FenceMatch(replyText, PlainFenceOpen).matched
    /\ JSONParse(FenceMatch(replyText, PlainFenceOpen).group).ok
    /\ ~extracted.ok

\* a json-labelled fence opener starts at position i
JsonOpenerAt(text, i) ==
    i + 2 <= Len(text) /\ SubSeq(text, i, i + 2) = JsonFenceOpen
\* at position i starts a json-labelled fenced block holding one object,
\* and the commentary before it opens no json-labelled fence of its own
WrappedObjectAt(text, i) ==
    /\ i + 5 <= Len(text)
    /\ JsonOpenerAt(text, i)
    /\ IsJsonText(text[i + 3])
    /\ text[i + 4] = NL
    /\ text[i + 5] = Fence
    /\ \A j \in 1..(i - 1) : ~JsonOpenerAt(text, j)
HasFence(text) == \E i \in 1..Len(text) : text[i] = Fence
IsOneObject(text) ==
    \E i \in 1..Len(text) :
        /\ IsJsonText(text[i])
        /\ \A j \in 1..Len(text) : j # i => text[j] = NL

-----------------------------------------------------------------------------
(* Further properties of fetchWithIframes (Spec, SpecEither).              *)

NoStats == [totalIframes |-> 0, successfulIframes |-> 0, failedIframes |-> 0]

\* C11: a document returned for a main page with no discoverable iframe
\* source has combinedHtml identical to mainHtml and carries stats whose
\* total, successful and failed counts are all 0.
C11_ZeroIframesPlainWithZeroStats ==
    (fpc = "done" /\ Len(iframeSrcs) = 0) =>
        /\ fetchResult.combinedHtml = fetchResult.mainHtml
        /\ fetchResult.mainHtml = mainServed.body
        /\ "stats" \in DOMAIN fetchResult
        /\ fetchResult.stats = NoStats

\* the invocations one analysis of n forms issues when nothing is retried
OneCallEach(n) == <<ExtractCall>> \o [i \in 1..n |-> GenerateCall(i)]

\* C12: nothing is retried.  A fetchWithIframes run issues one page fetch
\* when the main fetch fails and 1 + k page fetches when k iframe sources are
\* discovered; an analyzeFormsComplete run issues the extraction call alone
\* when extraction fails and, when n forms are extracted, the extraction call
\* and one call per form; this holds at every moment of the run, whatever
\* each call is answered with.
C12_NoRetries ==
    /\ fpc \in {"idle", "unused"} => fetchCalls = 0
    /\ fpc \in {"main", "failed"} => fetchCalls = 1
    /\ fpc \in {"iframes", "done"} => fetchCalls = 1 + Len(iframeSrcs)
    /\ fpc = "done" => DOMAIN iframeServed = 1..Len(iframeSrcs)
    /\ apc \in {"idle", "unused"} => modelCalls = <<>>
    /\ apc = "extracting" => modelCalls = <<ExtractCall>>
    /\ apc \in {"generating", "done", "failed"} =>
          /\ ~FormsExtracted => modelCalls = <<ExtractCall>>
          /\ FormsExtracted => modelCalls = OneCallEach(Len(ExtractedForms))
          /\ (FormsExtracted /\ apc = "done") =>
                 DOMAIN genServed = 1..Len(ExtractedForms)

\* C12 witness: an analysis of two forms completed, the value-generation
\* call of each form having failed.
C12_Witness ==
    /\ apc = "done"
    /\ Len(ExtractedForms) = 2
    /\ CallFails(genServed[1])
    /\ CallFails(genServed[2])
    /\ Len(modelCalls) = 3

\* an iframe tag whose source is neither excluded nor unresolvable
Discoverable(e) == e.t = "iframe" /\ e.src.kind \in {"abs", "rooted", "rel"}
\* the absolute location of a discoverable source of a page at base
LocationOf(src, base) ==
    IF src.kind = "abs" THEN src ELSE AbsSrc(base.origin, src.path)
\* the locations of the discoverable sources of html, one per occurrence, in
\* the order of the document
LocationsInOrder(html, base) ==
    LET tags == SelectSeq(html, Discoverable)
    IN  [i \in 1..Len(tags) |-> LocationOf(tags[i].src, base)]

\* C13: the discovered sources are the non-excluded, resolvable iframe
\* sources of the main page in their order of appearance, one entry per
\* occurrence, and a completed run has fetched every entry on its own.
C13_OrderAndDuplicatesKept ==
    (MainSettled /\ FetchSucceeded(mainServed)) =>
        /\ iframeSrcs = LocationsInOrder(mainServed.body, BaseUrl)
        /\ fpc = "done" =>
              /\ fetchCalls = 1 + Len(LocationsInOrder(mainServed.body, BaseUrl))
              /\ DOMAIN iframeServed = DOMAIN iframeSrcs
              /\ Len(fetchResult.iframes) = Len(iframeSrcs)

\* C13 witness: the same source twice in the page, its first fetch
\* succeeding and its second failing.
C13_Witness ==
    /\ fpc = "done"
    /\ Len(iframeSrcs) >= 2
    /\ iframeSrcs[1] = iframeSrcs[2]
    /\ FetchSucceeded(iframeServed[1])
    /\ ~FetchSucceeded(iframeServed[2])
    /\ fetchResult.iframes[1].success
    /\ ~fetchResult.iframes[2].success

-----------------------------------------------------------------------------
(* Properties of extractIframeSrcs (SpecDiscover).                         *)

Discovered == dpc = "done"

\* C14: no data: payload, javascript: pseudo-protocol or about:blank is
\* among the discovered sources.
C14_NoInlineOrScriptSource ==
    Discovered =>
        \A j \in DOMAIN discovered :
            discovered[j].kind \notin {"data", "javascript", "blank"}

\* a source without http:// or https:// scheme that is a relative reference
Relative(e) == e.t = "iframe" /\ e.src.kind \in {"rooted", "rel"}

\* C15: every relative source, rooted (/x) or path-less (x), is discovered
\* as the location directly under the origin of the base, whatever the path
\* of the base; nothing is discovered under the origin of the base but these.
C15_ResolvedAgainstOrigin ==
    Discovered =>
        /\ \A i \in DOMAIN docHtml :
              Relative(docHtml[i]) =>
                  \E j \in DOMAIN discovered :
                      discovered[j] = AbsSrc(docBase.origin, docHtml[i].src.path)
        /\ \A j \in DOMAIN discovered :
              (discovered[j].kind = "abs" /\ discovered[j].origin = docBase.origin)
                  => \E i \in DOMAIN docHtml :
                         /\ Relative(docHtml[i])
                         /\ discovered[j].path = docHtml[i].src.path
        /\ Len(SelectSeq(docHtml, Relative))
               = Len(SelectSeq(discovered,
                               LAMBDA loc : loc.kind = "abs"
                                            /\ loc.origin = docBase.origin))

\* C15 witness: base https://example.com/a/b, sources /x and x, both
\* discovered as https://example.com/x.
C15_Witness ==
    /\ Discovered
    /\ docBase = BaseUrl
    /\ docHtml = <<IframeTag(RootedSrc(<<"x">>)), IframeTag(RelSrc(<<"x">>))>>
    /\ discovered = <<AbsSrc("https://example.com", <<"x">>),
                      AbsSrc("https://example.com", <<"x">>)>>

\* a valid absolute location
ValidLocation(loc) == loc.kind \in {"abs", "data", "javascript", "blank"}
\* the source does not resolve to a valid absolute location
Unresolvable(e) == e.t = "iframe" /\ e.src.kind \in {"bad", "absbad"}
\* tags whose source is collected: neither skipped, nor without a quoted
\* src, nor rejected by the URL constructor
Collected(e) ==
    e.t = "iframe" /\ e.src.kind \in {"abs", "absbad", "rooted", "rel", "DATA"}

\* C16 as claimed: every source that does not resolve to a valid absolute
\* location is dropped, so every discovered entry is a valid absolute
\* location.
C16_EveryEntryValid ==
    Discovered =>
        /\ \A j \in DOMAIN discovered : ValidLocation(discovered[j])
        /\ Len(discovered) <= Len(SelectSeq(docHtml,
                                  LAMBDA e : e.t = "iframe" /\ ~Unresolvable(e)))

\* C16 amended: a source without http:// or https:// scheme that the URL
\* constructor rejects is dropped; a source that starts with http:// or
\* https:// is kept as written, valid or not; every other discovered entry is
\* a valid absolute location; and a dropped source hides no later one: the
\* entries are as many as the tags whose source is collected.
C16_UnprefixedInvalidDropped ==
    Discovered =>
        /\ \A j \in DOMAIN discovered :
              \/ ValidLocation(discovered[j])
              \/ /\ discovered[j].kind = "absbad"
                 /\ \E i \in DOMAIN docHtml : docHtml[i].src = discovered[j]
        /\ \A j \in DOMAIN discovered : discovered[j].kind # "bad"
        /\ Len(discovered) = Len(SelectSeq(docHtml, Collected))
        /\ \A i \in DOMAIN docHtml :
              docHtml[i].src.kind = "absbad" =>
                  \E j \in DOMAIN discovered : discovered[j] = docHtml[i].src

\* C16 witness: a source the URL constructor rejects, then an invalid
\* http:// source, then /x: the first is dropped, the other two discovered.
C16_Witness ==
    /\ Discovered
    /\ docHtml = <<IframeTag(OtherSrc("bad")), IframeTag(OtherSrc("absbad")),
                   IframeTag(RootedSrc(<<"x">>))>>
    /\ discovered = <<OtherSrc("absbad"), AbsSrc(docBase.origin, <<"x">>)>>

-----------------------------------------------------------------------------
(* Properties of callGeminiAPI (SpecCall).                                 *)

Called == cpc = "done"
\* the answer is a success that holds candidates[0].content.parts[0].text
WellFormedReply(resp) == resp.ok /\ resp.json /\ resp.shape = "full"

\* C17: a reply is returned only for a success answer that holds
\* candidates[0].content.parts[0].text, and it carries that text; a
\* non-success answer makes the call fail with the error that carries the
\* HTTP status; a success answer lacking any part of the structure makes it
\* fail with the invalid-structure error.
C17_ReplyOnlyWhenWellFormed ==
    Called =>
        /\ modelReply.ok =>
              /\ WellFormedReply(apiResponse)
              /\ modelReply.value.text = apiResponse.text
        /\ ~apiResponse.ok =>
              /\ ~modelReply.ok
              /\ modelReply.error = ApiError(apiResponse.status)
        /\ (apiResponse.ok /\ ~WellFormedReply(apiResponse)) =>
              /\ ~modelReply.ok
              /\ modelReply.error = InvalidStructure

\* the count the answer reports under k, 0 when it reports none
ReportedCount(k) ==
    IF k \in DOMAIN apiResponse.usageMetadata
    THEN apiResponse.usageMetadata[k]
    ELSE 0
\* cost (millionths of a dollar) is hundredths (hundredths of a millionth)
\* at the resolution of six decimals
AtSixDecimals(cost, hundredths) ==
    /\ cost * 100 - hundredths <= 50
    /\ hundredths - cost * 100 <= 50

\* C18: the costs of a returned reply are those of its reported token
\* counts at six decimals: inputCost is inputTokens / 1000 * 0.00125,
\* outputCost is outputTokens / 1000 * 0.005, totalCost is their sum (so it
\* is within a millionth of inputCost + outputCost as reported); 2000 input
\* and 1000 output tokens cost 0.0075; counts that are missing cost 0.
C18_CostFromTokenCounts ==
    (Called /\ modelReply.ok) =>
        LET usage == modelReply.value.usage
            inputTokens == ReportedCount("promptTokenCount")
            outputTokens == ReportedCount("candidatesTokenCount")
        IN  /\ usage.inputTokens = inputTokens
            /\ usage.outputTokens = outputTokens
            /\ AtSixDecimals(usage.inputCost, inputTokens * 125)
            /\ usage.outputCost = outputTokens * 5
            /\ AtSixDecimals(usage.totalCost,
                             inputTokens * 125 + outputTokens * 500)
            /\ usage.totalCost - (usage.inputCost + usage.outputCost) \in -1..1
            /\ (inputTokens = 2000 /\ outputTokens = 1000) =>
                  /\ usage.inputCost = 2500
                  /\ usage.outputCost = 5000
                  /\ usage.totalCost = 7500
            /\ (inputTokens = 0 /\ outputTokens = 0) =>
                  /\ usage.inputCost = 0
                  /\ usage.outputCost = 0
                  /\ usage.totalCost = 0

\* C18 witness: a reply reporting 2000 input and 1000 output tokens and no
\* total, returned with totalCost 0.0075.
C18_Witness ==
    /\ Called
    /\ modelReply.ok
    /\ DOMAIN apiResponse.usageMetadata
           = {"promptTokenCount", "candidatesTokenCount"}
    /\ apiResponse.usageMetadata.promptTokenCount = 2000
    /\ apiResponse.usageMetadata.candidatesTokenCount = 1000
    /\ modelReply.value.usage.totalCost = 7500
    /\ modelReply.value.usage.totalTokens = 3000

-----------------------------------------------------------------------------
(* Properties of the scanner routes (SpecRoutes).                          *)

Received == rpc # "idle"
Responded == rpc = "responded"

\* the body field the endpoint requires
RequiredField(endpoint) ==
    CASE endpoint \in {"/extract-forms", "/analyze-complete"} -> "htmlContent"
      [] endpoint = "/generate-values" -> "formData"
      [] endpoint \in {"/fetch-url", "/analyze-url"} -> "url"

\* the required field is missing (or empty), or it is a url that is not
\* well formed
InvalidRequest ==
    LET k == RequiredField(request.endpoint)
    IN  \/ k \notin DOMAIN request.body
        \/ request.body[k].kind = "empty"
        \/ request.body[k].kind = "url" /\ ~request.body[k].wellFormed

\* C19: a request to any of the five POST endpoints whose required field is
\* missing, or whose url is not well formed, is answered 400 with
\* success:false and an error message and no data, and no page fetch and no
\* model invocation is made for it.
C19_InvalidRequestRejected ==
    (Received /\ InvalidRequest) =>
        /\ Responded
        /\ response.status = 400
        /\ response.body.success = FALSE
        /\ "error" \in DOMAIN response.body
        /\ response.body.error.cause # ""
        /\ "data" \notin DOMAIN response.body
        /\ routeFetches = 0
        /\ routeModelCalls = 0
        /\ routeServed = NothingServed

\* C19 witness: POST /analyze-url with a url that is not well formed,
\* answered 400.
C19_Witness ==
    /\ Responded
    /\ request.endpoint = "/analyze-url"
    /\ "url" \in DOMAIN request.body
    /\ request.body.url = Url(FALSE)
    /\ response = BadRequest("Invalid URL format")

\* the request ran into a fatal failure: its main fetch failed, or its
\* extraction call failed
MainFetchFailed ==
    routeServed.main # NoResult /\ ~FetchSucceeded(routeServed.main)
ExtractionFailed ==
    routeServed.extract # NoResult /\ CallFails(routeServed.extract)
\* the analysis of the request extracted forms and asked values for each
FormsAnalysed ==
    /\ request.endpoint \in {"/analyze-complete", "/analyze-url"}
    /\ routeServed.extract # NoResult
    /\ ~CallFails(routeServed.extract)
    /\ "forms" \in DOMAIN ReplyObject(routeServed.extract)

\* C20: a request whose main fetch or extraction call failed is answered
\* with success:false, an error message and no data; a request whose
\* analysis extracted forms is answered with success:true and data holding
\* one entry per form, errored (suggestedValues null, validationStatus
\* carrying the error) where the value generation of the form failed and
\* populated where it did not.
C20_FatalFailsPartialSucceeds ==
    Responded =>
        /\ (MainFetchFailed \/ ExtractionFailed) =>
              /\ response.status = 500
              /\ response.body.success = FALSE
              /\ "error" \in DOMAIN response.body
              /\ response.body.error.cause # ""
              /\ "data" \notin DOMAIN response.body
        /\ FormsAnalysed =>
              /\ response.status = 200
              /\ response.body.success = TRUE
              /\ "error" \notin DOMAIN response.body
              /\ Len(response.body.data.forms) = Len(routeServed.gen)
              /\ \A i \in DOMAIN routeServed.gen :
                    IF CallFails(routeServed.gen[i])
                    THEN /\ response.body.data.forms[i].suggestedValues = Null
                         /\ "error" \in DOMAIN
                                response.body.data.forms[i].validationStatus
                    ELSE response.body.data.forms[i].suggestedValues
                             = Field(ReplyObject(routeServed.gen[i]), "values")

\* C20 witness: POST /analyze-url answered success:true with two forms, the
\* first errored and the second populated.
C20_Witness ==
    /\ Responded
    /\ request.endpoint = "/analyze-url"
    /\ response.body.success = TRUE
    /\ Len(response.body.data.forms) = 2
    /\ CallFails(routeServed.gen[1])
    /\ response.body.data.forms[1].suggestedValues = Null
    /\ ~CallFails(routeServed.gen[2])
    /\ response.body.data.forms[2].suggestedValues = [fieldName |-> 1]

-----------------------------------------------------------------------------
(* Properties of the course of analyzeFormsComplete (SpecAnalyze).         *)

\* the steps a run takes: extraction asked, extraction settled (thrown, or
\* parsed and the values asked), the sums made and returned
C21_Steps ==
    { <<"idle", "extracting">>, <<"extracting", "generating">>,
      <<"extracting", "failed">>, <<"generating", "done">> }

C21_IsGenerateCall(call) == call.purpose = "generate"

C21_Ordered ==
    /\ (\E i \in DOMAIN modelCalls : C21_IsGenerateCall(modelCalls[i]))
          => /\ apc \in {"generating", "done"}
             /\ modelCalls[1] = ExtractCall
             /\ extractServed # NoResult
             /\ ExtractForms(extractServed).ok
             /\ formsData = ExtractForms(extractServed).value
    /\ (analysis # NoResult)
          => /\ apc = "done"
             /\ genPending = {}
             /\ DOMAIN genServed = 1..Len(formsData.forms)
             /\ \A i \in DOMAIN formsWithValues : formsWithValues[i] # Pending
    /\ (apc = "done") => analysis # NoResult

\* C21: a run of analyzeFormsComplete goes from idle to extracting, to
\* generating, through the aggregation to done, in that order, or ends
\* failed; no value-generation call is issued before the extraction call has
\* returned and its reply was parsed, and the result with totalUsage exists
\* only once every value-generation call has settled.
C21_PhasesInOrder ==
    /\ [](C21_Ordered)
    /\ [][apc' # apc => <<apc, apc'>> \in C21_Steps]_vars

C21_Witness ==
    /\ apc = "done"
    /\ Len(formsData.forms) >= 2
    /\ genOvertook
    /\ \E i \in DOMAIN genServed :
          ~GenerateFieldValues(formsData.forms[i], genServed[i]).ok
    /\ "totalUsage" \in DOMAIN analysis

\* the phase an error of analyzeFormsComplete names: extractForms rethrows
\* what it catches as "Failed to extract forms: ..."
C22_PhaseTag(error) == error.wrap

\* C22: a run that ends failed carries the error that made it fail, tagged
\* with the phase it occurred in; a run that ends done carries a result with
\* summary, forms, totalUsage and the timing breakdown.
C22_FailedTaggedDoneComplete ==
    /\ (apc = "failed") =>
          /\ analysis = NoResult
          /\ analysisError # NoError
          /\ C22_PhaseTag(analysisError) = "Failed to extract forms"
    /\ (apc = "done") =>
          /\ analysisError = NoError
          /\ {"summary", "forms", "totalUsage", "performance"}
                \subseteq DOMAIN analysis
          /\ DOMAIN analysis.performance =
                {"extractionTime", "valueGenerationTime", "totalTime",
                 "averageTimePerForm"}

-----------------------------------------------------------------------------
(* Properties of the extraction on its own output (SpecRoundTrip).         *)

Reextracted == reextracted # NoResult

\* every number of the extracted object is finite
C23_Finite(value) ==
    "count" \in DOMAIN value => value.count # Infinity

-----------------------------------------------------------------------------
(* Properties of concurrent requests (SpecConcurrent).                     *)

\* what the call of request r has come to
C24_Outcome(r) ==
    LET f == frames[Activation(r)]
    IN  IF f.pc = "done" THEN Return(f.returned) ELSE Throw(f.thrown)

\* what the call of request r comes to when it runs alone and the remote
\* answers it what it answered request r
C24_Alone(r) ==
    IF operation[r] = "fetchWithIframes"
    THEN FetchOutcome(servedTo[r].main, servedTo[r].iframes)
    ELSE AnalysisOutcome(servedTo[r].extract, servedTo[r].gen,
                         servedTo[r].elapsed)

\* the remote has answered every call request r issued
C24_AllAnswered(r) ==
    IF operation[r] = "fetchWithIframes"
    THEN /\ servedTo[r].main # NoResult
         /\ DOMAIN servedTo[r].iframes =
                1..Len(SourcesServed(servedTo[r].main))
    ELSE /\ servedTo[r].extract # NoResult
         /\ DOMAIN servedTo[r].gen = 1..Len(FormsServed(servedTo[r].extract))

\* C24: requests served at the same time do not interfere: under every
\* interleaving of their fetches and model calls, what a request's call
\* returns (aggregated document, or forms and totalUsage) or throws is what
\* it returns or throws when it runs alone against the same answers of the
\* remote.
C24_NoInterference ==
    \A r \in Requests :
        frames[Activation(r)].pc \in {"done", "failed"} =>
            /\ C24_AllAnswered(r)
            /\ C24_Outcome(r) = C24_Alone(r)

\* two calls of the same operation, answered differently, each served
\* while the other was under way
C24_Witness ==
    /\ \A r \in Requests : frames[Activation(r)].pc = "done"
    /\ operation[1] = operation[2]
    /\ C24_Outcome(1) # C24_Outcome(2)
    /\ \E r \in Requests :
          \/ Len(frames[Activation(r)].iframeSrcs) = 2
          \/ Len(frames[Activation(r)].formsWithValues) = 2

-----------------------------------------------------------------------------
(* Properties of combineHtml (Spec).                                       *)

\* positions of combined that hold a marker of index
C26_Markers(combined, index) ==
    { k \in DOMAIN combined :
        combined[k].t = "marker" /\ combined[k].index = index }

RECURSIVE C26_BodyLength(_, _)
\* length of the bodies of the successful entries among the first n
C26_BodyLength(contents, n) ==
    IF n = 0 THEN 0
    ELSE C26_BodyLength(contents, n - 1)
            + (IF contents[n].success THEN Len(contents[n].content) ELSE 0)

\* C26: for every iframe whose fetch succeeded, one whose body is empty
\* included, combinedHtml holds exactly one marker with the iframe's 1-based
\* discovery index and its source; for every failed iframe it holds neither
\* marker nor body, and a failed iframe still takes up an index.
C26_OneMarkerPerSuccessfulIframe ==
    (fpc = "done" /\ "stats" \in DOMAIN fetchResult) =>
        LET combined == fetchResult.combinedHtml
            iframes == fetchResult.iframes
        IN  /\ \A i \in DOMAIN iframes :
                 IF iframes[i].success
                 THEN /\ Cardinality(C26_Markers(combined, i)) = 1
                      /\ \A k \in C26_Markers(combined, i) :
                            combined[k] = Marker(i, iframeSrcs[i])
                 ELSE C26_Markers(combined, i) = {}
            /\ Len(combined) =
                  Len(mainHtml) + Cardinality(Successful(iframes))
                     + C26_BodyLength(iframes, Len(iframes))

-----------------------------------------------------------------------------
(* Termination of the two operations (SpecScheduled).                      *)

\* the run has been called and has neither returned nor thrown
C27_Pending == fpc \in {"main", "iframes"} \/ apc \in {"extracting", "generating"}
C27_Terminated == fpc \in {"done", "failed"} \/ apc \in {"done", "failed"}

\* a network call of the run has not settled
C27_CallOutstanding ==
    \/ fpc = "main"
    \/ fpc = "iframes" /\ iframePending # {}
    \/ apc = "extracting"
    \/ apc = "generating" /\ genPending # {}

\* every page fetch and every model call settles
C27_CallsSettle ==
    /\ WF_vars(MainFetchSettle)
    /\ WF_vars(IframeFetchSettle)
    /\ WF_vars(ExtractSettle)
    /\ WF_vars(GenerateSettle)

\* C27: if every page fetch and every model call eventually settles, a run
\* of fetchWithIframes or of analyzeFormsComplete eventually ends, with a
\* result or with an error; and a run that stays pending for ever has, from
\* some time on, a network call of its own that has not settled.
C27_Terminates ==
    /\ C27_CallsSettle => (C27_Pending ~> C27_Terminated)
    /\ <>[]C27_Pending => <>[]C27_CallOutstanding

\* a run that ended after its calls settled out of order, one of them failed
C27_Witness ==
    \/ /\ fpc = "done"
       /\ iframeOvertook
       /\ \E i \in DOMAIN iframeContents : ~iframeContents[i].success
    \/ /\ apc = "done"
       /\ genOvertook
       /\ \E i \in DOMAIN formsWithValues :
             formsWithValues[i].suggestedValues = Null

-----------------------------------------------------------------------------
(* Further properties of the scanner routes (SpecRoutes).                  *)

\* the main document of the request was fetched
C28_MainFetched ==
    routeServed.main # NoResult /\ FetchUrl(routeServed.main).ok

\* C28: whenever the fetch of the main document succeeds, POST /fetch-url
\* answers success true with the combined html, and POST /analyze-url goes
\* on to the analysis, whatever the number of iframes discovered, none
\* included: the handler does not turn a successful fetch into a 500.
C28_FetchedNeverServerError ==
    (request # NoResult /\ C28_MainFetched) =>
        LET document ==
                FetchOutcome(routeServed.main, routeServed.iframes).value
        IN  /\ (request.endpoint = "/fetch-url") =>
                  /\ response.status = 200
                  /\ response.body.success
                  /\ response.body.data.htmlContent = document.combinedHtml
            /\ (request.endpoint = "/analyze-url") =>
                  /\ rpc = "fetched" \/ routeServed.extract # NoResult
                  /\ (rpc = "responded") => routeModelCalls >= 1

-----------------------------------------------------------------------------
(* Further properties of analyzeFormsComplete (SpecAnalyze).               *)

\* the usage callGeminiAPI reported for the extraction call
C29_ExtractionUsage == ExtractForms(extractServed).value.usage

\* C29: when extraction succeeds with an empty forms sequence, the analysis
\* is done with an empty forms list, totalUsage is the usage of the
\* extraction call alone, and averageTimePerForm is a well-defined number
\* (nothing is divided by zero).
C29_NoFormsWellDefined ==
    (apc \in {"generating", "done"} /\ Len(formsData.forms) = 0) =>
        /\ genPending = {}
        /\ modelCalls = <<ExtractCall>>
        /\ (apc = "done") =>
              /\ analysis.forms = <<>>
              /\ analysis.totalUsage = C29_ExtractionUsage
              /\ analysis.performance.averageTimePerForm.num = "finite"

-----------------------------------------------------------------------------
(* Properties of the benchmark script (SpecBenchmark).                     *)

\* the requests sent for the test of website in run
RequestsOfTest(endpoint, website, run) ==
    { k \in DOMAIN benchRequests :
        /\ benchRequests[k].endpoint = endpoint
        /\ benchRequests[k].website = website
        /\ benchRequests[k].run = run }

\* the answer of the server to the fetch, to the analysis of result r
FetchAnswer(r) ==
    benchRequests[CHOOSE k \in RequestsOfTest("/fetch-url", r.name, r.runNumber)
                      : TRUE].answer
AnalysisAnswered(r) ==
    RequestsOfTest("/analyze-complete", r.name, r.runNumber) # {}
AnalysisAnswer(r) ==
    benchRequests[CHOOSE k \in RequestsOfTest("/analyze-complete", r.name,
                                              r.runNumber) : TRUE].answer

LoopsDone == bpc \in {"report", "complete", "exit 1"}

\* C25: in the benchmark a website whose fetch fails has its analysis
\* skipped and is recorded as failed; the other websites and runs are still
\* tested, one after the other; and the benchmark completes and writes its
\* report and result files, also when every request fails.
C25_BenchmarkCompletes ==
    /\ \A k \in DOMAIN allResults :
         LET r == allResults[k]
         IN  /\ r.runNumber = ((k - 1) \div MaxWebsites) + 1
             /\ r.name = ((k - 1) % MaxWebsites) + 1
             /\ Cardinality(RequestsOfTest("/fetch-url", r.name, r.runNumber))
                   = 1
             /\ ~ResponseOk(FetchAnswer(r)) =>
                   /\ ~AnalysisAnswered(r)
                   /\ ~FetchSuccess(r)
                   /\ ~AnalysisSuccess(r)
    /\ LoopsDone => Len(allResults) = MaxWebsites * MaxRuns
    /\ bpc # "exit 1"
    /\ (bpc = "complete") => filesWritten = ResultFiles

\* C30: calculateStatistics reports successful + failed = totalTests: a
\* result counts as successful exactly when its analysis succeeded, as
\* failed exactly when its fetch failed or its analysis did not succeed; no
\* result is counted twice or left out.
C30_EveryResultCountedOnce ==
    (statistics # NoResult) =>
        LET succeeded ==
                { k \in DOMAIN allResults :
                    /\ AnalysisAnswered(allResults[k])
                    /\ ResponseOk(AnalysisAnswer(allResults[k])) }
            fetchFailed ==
                { k \in DOMAIN allResults :
                    ~ResponseOk(FetchAnswer(allResults[k])) }
            analysisFailed ==
                { k \in DOMAIN allResults :
                    /\ AnalysisAnswered(allResults[k])
                    /\ ~ResponseOk(AnalysisAnswer(allResults[k])) }
        IN  /\ statistics.totalTests = Len(allResults)
            /\ statistics.successful + statistics.failed
                  = statistics.totalTests
            /\ statistics.successful = Cardinality(succeeded)
            /\ statistics.failed = Cardinality(fetchFailed \cup analysisFailed)
            /\ succeeded \cap (fetchFailed \cup analysisFailed) = {}
            /\ succeeded \cup fetchFailed \cup analysisFailed
                  = DOMAIN allResults

\* statistics of a benchmark with a failed fetch, a failed analysis and a
\* successful test
C30_Witness ==
    /\ statistics # NoResult
    /\ statistics.successful >= 1
    /\ \E k \in DOMAIN allResults : ~FetchSuccess(allResults[k])
    /\ \E k \in DOMAIN allResults :
          FetchSuccess(allResults[k]) /\ ~AnalysisSuccess(allResults[k])

=============================================================================
